---- MODULE Spec2Model ----
(***************************************************************************)
(* A model of caladan's install-lockfile pipeline (main.go, shipped here   *)
(* as the second half of src/semver.go): the error group of fetch-extract  *)
(* units under the HTTP and extraction semaphores, the orchestrator that   *)
(* waits for them, and the bin shim installer.                             *)
(***************************************************************************)
EXTENDS Integers, Sequences, FiniteSets, TLC

(***************************************************************************)
(* Bounds of the model.                                                    *)
(***************************************************************************)
\* number of plan entries (one fetch-extract unit each)
NumUnits == 3
\* permits of the HTTP semaphore; the program uses 64 (semver.go:335), the
\* model scales it down so that the units can outnumber the permits
HttpPermits == 2
\* permits of the extraction semaphore, int64(tarWorkers) in the program
TarPermits == 1

Units == 1..NumUnits

\* runtime.GOOS of the host, and the OS names a lockfile entry may list
currentOS == "linux"
OSNames == {"linux", "darwin"}

\* The entries a plan may hold: with or without a download URL, and with an
\* os list that is empty, names the host, or names another OS only.
PackageInfos ==
  << [Resolved |-> "",    OS |-> {}],
     [Resolved |-> "url", OS |-> {}],
     [Resolved |-> "url", OS |-> {"linux"}],
     [Resolved |-> "url", OS |-> {"darwin"}] >>

\* The plan is a map and its units are interchangeable: plans are taken up to
\* the order of their entries (unit u holds the entry of index plan[u], the
\* indices ascending).
Plans ==
  { [u \in Units |-> PackageInfos[ix[u]]] :
      ix \in { f \in [Units -> 1..Len(PackageInfos)] :
                 \A u \in Units : u + 1 \in Units => f[u] <= f[u + 1] } }

NoError == "nil"
Pending == "pending"
Failed == "error"

VARIABLES
  packages,      \* the plan: unit -> PackageInfo (deps.AllPackages)
  pc,            \* unit -> its position in the goroutine of DownloadPackages
  ctxDone,       \* the error group's context is cancelled
  httpSemaphore, \* semaphore.Weighted record
  tarSemaphore,  \* semaphore.Weighted record
  holdsHttp,     \* unit -> its httpSemaphore.Acquire returned nil
  holdsTar,      \* unit -> its tarSemaphore.Acquire returned nil
  unitErr,       \* unit -> what the unit's function returns
  groupErr,      \* the error group's first error (g.err)
  main,          \* the orchestrator: "wait", "exit1", "shims", "complete", "panic"
  pkgDirs,       \* units whose MkdirAll(pkgPath) ran
  shimmed,       \* plan entries setupBinScripts has processed
  \* one fetch-extract unit's data path (downloadAndExtractPackage)
  body,          \* the bytes of the response body
  integrity,     \* the entry's integrity tag, a sequence of characters
  tampered,      \* which of the pair was altered in one byte: "none", "tag", "stream"
  resp,          \* what client.Get returned: "none" yet, "HTTPError", "HTTPStatus", "200"
  upc,           \* the unit's position: "get", "extract", "verify", "done"
  hashed,        \* number of body bytes read through the TeeReader
  consumed,      \* number of body bytes the gzip/tar readers have decoded
  destFiles,     \* the files under destPath: a set of [Name, Data]
  result,        \* what downloadAndExtractPackage returned
  \* the node_modules tree of install-lockfile, run twice on one lockfile
  lockfile,      \* deps.AllPackages: key (path components) -> [Bin, Tarball]
  run,           \* which run of install-lockfile this is: 1 or 2
  phase,         \* "units", "shims", "complete"; "exit1" after a unit's error
  ipc,           \* key -> the unit's position: "mkdir", "extract", "done", "failed"
  entry,         \* key -> index of the tar entry the unit extracts next
  tree,          \* node_modules: path (components below node_modules) -> node
  wrote,         \* key -> the paths the unit has created or written
  firstTree,     \* the tree the first run ended with
  binDone,       \* the keys setupBinScripts has gone through
  \* the resolver: ResolveDependencies on a top-level list
  deps,          \* the top-level list: a sequence of [Name, Version], Version a range
  resolved,      \* PackageResolver.resolved: <<name, range>> -> PackageInfo
  memoOrder,     \* the keys of resolved in the order they were first stored
  rpass,         \* "peers" (collectPeerDependencies), "resolve", "done", "failed"
  rpc,           \* position in deps -> the call's position: "scan", "acquire", "wait", "fetch", "done"
  rres,          \* position in deps -> what ResolveDependency returned
  rsem,          \* PackageResolver.semaphore
  rctxDone,      \* the pass's error-group context is cancelled
  fetches,       \* name -> number of metadata GETs issued
  warnings,      \* the unmet-peer warnings printed: a set of <<dep, peer>>
  resolvedDeps,  \* what ResolveDependencies returns
  \* concurrent calls of GetMatchingVersions
  semverSemaphore, \* the package's semaphore of RunSemver
  svers,         \* the candidate versions the callers pass
  spc,           \* caller -> position: "idle", "acquire", "wait", "running", "done"
  sargs,         \* caller -> the range it passes
  sout,          \* caller -> what GetMatchingVersions returned: [err, matches]
  \* HoistDependencies on a resolved tree
  hdeps,         \* the argument: a sequence of [Name, Version, ResolvedDeps]
  counts,        \* <<name, version>> -> number of occurrences in the tree
  hoistPackages, \* the map packages: <<name, version>> -> PackageInfo
  hoisted,       \* the root list being built
  rootPackages,  \* name -> the version at the root
  pending,       \* the keys of counts the loop has yet to visit
  hkeys,         \* the keys the loop found hoistable and ran updateRefs for
  hpc,           \* "collect", "loop", "returned"
  \* what DownloadPackages reads when it creates the extraction semaphore
  numCPU,        \* runtime.NumCPU()
  tarWorkersEnv, \* os.Getenv("TAR_WORKERS"): [kind, halves], the number in halves
  \* one call of extractTarGz
  archive,       \* the tar entries: a sequence of [Typeflag, Name, Data, Linkname]
  dest,          \* the tree below destPath: path -> node
  createdDirs,   \* the directories extractTarGz remembers having created
  xnext,         \* index of the entry tr.Next() returns next
  xerr,          \* what extractTarGz returned: "pending", "nil", "error"
  \* GenerateLockFile on a resolved tree
  ldeps,         \* the argument: a sequence of PackageInfo
  lockDoc,       \* what it returned: [err, doc]
  \* ResolveDependency with the dependencies of the resolved packages
  metadata,      \* the registry: name -> the names its one version depends on
  calls,         \* the calls made: path of names from the top -> [pc, err, entry]
  treeResolved,  \* PackageResolver.resolved: name -> PackageInfo
  treeSem        \* PackageResolver.semaphore

runVars == <<packages, pc, ctxDone, httpSemaphore, tarSemaphore, holdsHttp,
             holdsTar, unitErr, groupErr, main, pkgDirs, shimmed>>

unitVars == <<body, integrity, tampered, resp, upc, hashed, consumed, destFiles,
              result>>

installVars == <<lockfile, run, phase, ipc, entry, tree, wrote, firstTree, binDone>>

resolveVars == <<deps, resolved, memoOrder, rpass, rpc, rres, rsem, rctxDone, fetches,
                 warnings, resolvedDeps>>

semverVars == <<semverSemaphore, svers, spc, sargs, sout>>

hoistVars == <<hdeps, counts, hoistPackages, hoisted, rootPackages, pending, hkeys, hpc>>

envVars == <<numCPU, tarWorkersEnv>>

extractVars == <<archive, dest, createdDirs, xnext, xerr>>

lockVars == <<ldeps, lockDoc>>

treeVars == <<metadata, calls, treeResolved, treeSem>>

vars == <<runVars, unitVars, installVars, resolveVars, semverVars, hoistVars, envVars, extractVars, lockVars, treeVars>>

\* what the actions of one specification leave alone
outsideRun == <<unitVars, installVars, resolveVars, semverVars, hoistVars, envVars, extractVars, lockVars, treeVars>>
outsideUnit == <<runVars, installVars, resolveVars, semverVars, hoistVars, envVars, extractVars, lockVars, treeVars>>
outsideInstall == <<runVars, unitVars, resolveVars, semverVars, hoistVars, envVars, extractVars, lockVars, treeVars>>
outsideResolve == <<runVars, unitVars, installVars, semverVars, hoistVars, envVars, extractVars, lockVars, treeVars>>
outsideSemver == <<runVars, unitVars, installVars, resolveVars, hoistVars, envVars, extractVars, lockVars, treeVars>>
outsideHoist == <<runVars, unitVars, installVars, resolveVars, semverVars, envVars, extractVars, lockVars, treeVars>>
outsideDownload == <<unitVars, installVars, resolveVars, semverVars, hoistVars, extractVars, lockVars, treeVars>>
outsideExtract == <<runVars, unitVars, installVars, resolveVars, semverVars, hoistVars, envVars, lockVars, treeVars>>
outsideLock == <<runVars, unitVars, installVars, resolveVars, semverVars, hoistVars, envVars, extractVars, treeVars>>
outsideTree == <<runVars, unitVars, installVars, resolveVars, semverVars, hoistVars, envVars, extractVars, lockVars>>

(***************************************************************************)
(* golang.org/x/sync/semaphore.Weighted, as the program uses it (weight 1).*)
(* cur: permits held; waiters: FIFO of blocked callers; ready: waiters     *)
(* that were handed a permit and have not yet resumed.                     *)
(***************************************************************************)
NewWeighted(n) == [size |-> n, cur |-> 0, waiters |-> <<>>, ready |-> {}]

RECURSIVE notifyWaiters(_)
notifyWaiters(s) ==
  IF s.waiters = <<>> \/ s.size - s.cur < 1
  THEN s
  ELSE notifyWaiters([s EXCEPT !.cur = @ + 1,
                               !.waiters = Tail(@),
                               !.ready = @ \cup {Head(s.waiters)}])

RemoveWaiter(q, u) == SelectSeq(q, LAMBDA x : x # u)

\* Acquire(ctx, 1) can take a permit at once
CanAcquireNow(s) == s.size - s.cur >= 1 /\ s.waiters = <<>>

\* the semaphore after a blocked caller resumes, and whether it got a permit
AcquireResumes(s, u, done) ==
  IF u \in s.ready
  THEN IF done
       THEN \* acquired after cancellation: the permit is put back
            [sem |-> notifyWaiters([s EXCEPT !.cur = @ - 1, !.ready = @ \ {u}]),
             ok |-> FALSE]
       ELSE [sem |-> [s EXCEPT !.ready = @ \ {u}], ok |-> TRUE]
  ELSE \* ctx done while queued
       LET isFront == s.waiters # <<>> /\ Head(s.waiters) = u
           s1 == [s EXCEPT !.waiters = RemoveWaiter(@, u)]
       IN  [sem |-> IF isFront /\ s1.size > s1.cur THEN notifyWaiters(s1) ELSE s1,
            ok |-> FALSE]

\* Release(1): panics when more is released than held
ReleasePanics(s) == s.cur - 1 < 0
Release(s) == notifyWaiters([s EXCEPT !.cur = @ - 1])

(***************************************************************************)
(* The goroutine of one plan entry: DownloadPackages' closure and          *)
(* downloadAndExtractPackage.                                              *)
(***************************************************************************)
Running == main = "wait"

\* line 354: no download URL
NoDownloadURL(p) == p.Resolved = ""

\* the OS test of lines 362-370 inverted
NotForCurrentOSInverted(p) == p.OS # {} /\ currentOS \in p.OS

\* lines 360-374: os list non-empty and the host OS not in it
NotForCurrentOS(p) == p.OS # {} /\ currentOS \notin p.OS

\* lines 353-388: the skips, then MkdirAll(pkgPath)
StartUnit(u) ==
  /\ Running /\ pc[u] = "start"
  /\ IF NoDownloadURL(packages[u]) \/ NotForCurrentOS(packages[u])
     THEN /\ pc' = [pc EXCEPT ![u] = "return"]
          /\ unitErr' = [unitErr EXCEPT ![u] = NoError]
          /\ UNCHANGED pkgDirs
     ELSE /\ pc' = [pc EXCEPT ![u] = "acqHttp"]
          /\ pkgDirs' = pkgDirs \cup {u}
          /\ UNCHANGED unitErr
  /\ UNCHANGED <<packages, ctxDone, httpSemaphore, tarSemaphore, holdsHttp,
                 holdsTar, groupErr, main, shimmed>>
  /\ UNCHANGED outsideRun

\* lines 412-419: httpSemaphore.Acquire(ctx, 1), its error dropped; when it
\* returns, client.Get(url) is called (the request carries no context)
AcquireHttp(u) ==
  /\ Running /\ pc[u] = "acqHttp"
  /\ IF ctxDone
     THEN /\ pc' = [pc EXCEPT ![u] = "getting"]
          /\ UNCHANGED <<httpSemaphore, holdsHttp>>
     ELSE IF CanAcquireNow(httpSemaphore)
     THEN /\ httpSemaphore' = [httpSemaphore EXCEPT !.cur = @ + 1]
          /\ holdsHttp' = [holdsHttp EXCEPT ![u] = TRUE]
          /\ pc' = [pc EXCEPT ![u] = "getting"]
     ELSE /\ httpSemaphore' =
               IF 1 > httpSemaphore.size THEN httpSemaphore
               ELSE [httpSemaphore EXCEPT !.waiters = Append(@, u)]
          /\ pc' = [pc EXCEPT ![u] = "waitHttp"]
          /\ UNCHANGED holdsHttp
  /\ UNCHANGED <<packages, ctxDone, tarSemaphore, holdsTar, unitErr, groupErr,
                 main, pkgDirs, shimmed>>
  /\ UNCHANGED outsideRun

\* lines 412-419, a blocked Acquire returning, with a permit or with
\* ctx.Err(); client.Get(url) is called either way
ResumeHttp(u) ==
  /\ Running /\ pc[u] = "waitHttp"
  /\ u \in httpSemaphore.ready \/ ctxDone
  /\ LET r == AcquireResumes(httpSemaphore, u, ctxDone)
     IN  /\ httpSemaphore' = r.sem
         /\ holdsHttp' = [holdsHttp EXCEPT ![u] = r.ok]
  /\ pc' = [pc EXCEPT ![u] = "getting"]
  /\ UNCHANGED <<packages, ctxDone, tarSemaphore, holdsTar, unitErr, groupErr,
                 main, pkgDirs, shimmed>>
  /\ UNCHANGED outsideRun

\* lines 419-447: client.Get returns; status and integrity prefix are checked
GetReturns(u) ==
  /\ Running /\ pc[u] = "getting"
  /\ \E ok \in BOOLEAN :
       IF ok
       THEN /\ pc' = [pc EXCEPT ![u] = "acqTar"]
            /\ UNCHANGED unitErr
       ELSE /\ pc' = [pc EXCEPT ![u] = "relHttp"]
            /\ unitErr' = [unitErr EXCEPT ![u] = Failed]
  /\ UNCHANGED <<packages, ctxDone, httpSemaphore, tarSemaphore, holdsHttp,
                 holdsTar, groupErr, main, pkgDirs, shimmed>>
  /\ UNCHANGED outsideRun

\* lines 450-453: tarSemaphore.Acquire(ctx, 1), its error dropped; when it
\* returns, extractTarGz starts reading the response body
AcquireTar(u) ==
  /\ Running /\ pc[u] = "acqTar"
  /\ IF ctxDone
     THEN /\ pc' = [pc EXCEPT ![u] = "extracting"]
          /\ UNCHANGED <<tarSemaphore, holdsTar>>
     ELSE IF CanAcquireNow(tarSemaphore)
     THEN /\ tarSemaphore' = [tarSemaphore EXCEPT !.cur = @ + 1]
          /\ holdsTar' = [holdsTar EXCEPT ![u] = TRUE]
          /\ pc' = [pc EXCEPT ![u] = "extracting"]
     ELSE /\ tarSemaphore' =
               IF 1 > tarSemaphore.size THEN tarSemaphore
               ELSE [tarSemaphore EXCEPT !.waiters = Append(@, u)]
          /\ pc' = [pc EXCEPT ![u] = "waitTar"]
          /\ UNCHANGED holdsTar
  /\ UNCHANGED <<packages, ctxDone, httpSemaphore, holdsHttp, unitErr, groupErr,
                 main, pkgDirs, shimmed>>
  /\ UNCHANGED outsideRun

\* lines 450-453, a blocked Acquire returning; extractTarGz starts either way
ResumeTar(u) ==
  /\ Running /\ pc[u] = "waitTar"
  /\ u \in tarSemaphore.ready \/ ctxDone
  /\ LET r == AcquireResumes(tarSemaphore, u, ctxDone)
     IN  /\ tarSemaphore' = r.sem
         /\ holdsTar' = [holdsTar EXCEPT ![u] = r.ok]
  /\ pc' = [pc EXCEPT ![u] = "extracting"]
  /\ UNCHANGED <<packages, ctxDone, httpSemaphore, holdsHttp, unitErr, groupErr,
                 main, pkgDirs, shimmed>>
  /\ UNCHANGED outsideRun

\* lines 453-456: extractTarGz returns
ExtractReturns(u) ==
  /\ Running /\ pc[u] = "extracting"
  /\ \E ok \in BOOLEAN :
       IF ok
       THEN /\ pc' = [pc EXCEPT ![u] = "compare"]
            /\ UNCHANGED unitErr
       ELSE /\ pc' = [pc EXCEPT ![u] = "relTar"]
            /\ unitErr' = [unitErr EXCEPT ![u] = Failed]
  /\ UNCHANGED <<packages, ctxDone, httpSemaphore, tarSemaphore, holdsHttp,
                 holdsTar, groupErr, main, pkgDirs, shimmed>>
  /\ UNCHANGED outsideRun

CompareAfterRelease(u) ==
  /\ Running /\ pc[u] = "compare"
  /\ \E r \in {Failed, NoError} :
       unitErr' = [unitErr EXCEPT ![u] = r]
  /\ tarSemaphore' = IF holdsTar[u] THEN Release(tarSemaphore) ELSE tarSemaphore
  /\ holdsTar' = [holdsTar EXCEPT ![u] = FALSE]
  /\ pc' = [pc EXCEPT ![u] = "relHttp"]
  /\ UNCHANGED <<packages, ctxDone, httpSemaphore, holdsHttp, groupErr, main,
                 pkgDirs, shimmed>>
  /\ UNCHANGED outsideRun

\* lines 458-471: the tag is decoded and the digests compared
CompareDigests(u) ==
  /\ Running /\ pc[u] = "compare"
  /\ \E r \in {Failed, NoError} :
       unitErr' = [unitErr EXCEPT ![u] = r]
  /\ pc' = [pc EXCEPT ![u] = "relTar"]
  /\ UNCHANGED <<packages, ctxDone, httpSemaphore, tarSemaphore, holdsHttp,
                 holdsTar, groupErr, main, pkgDirs, shimmed>>
  /\ UNCHANGED outsideRun

\* line 451: the deferred tarSemaphore.Release(1), run when the function returns
ReleaseTar(u) ==
  /\ Running /\ pc[u] = "relTar"
  /\ IF ReleasePanics(tarSemaphore)
     THEN /\ main' = "panic"
          /\ UNCHANGED <<tarSemaphore, pc, holdsTar>>
     ELSE /\ tarSemaphore' = Release(tarSemaphore)
          /\ holdsTar' = [holdsTar EXCEPT ![u] = FALSE]
          /\ pc' = [pc EXCEPT ![u] = "relHttp"]
          /\ UNCHANGED main
  /\ UNCHANGED <<packages, ctxDone, httpSemaphore, holdsHttp, unitErr, groupErr,
                 pkgDirs, shimmed>>
  /\ UNCHANGED outsideRun

\* line 413: the deferred httpSemaphore.Release(1)
ReleaseHttp(u) ==
  /\ Running /\ pc[u] = "relHttp"
  /\ IF ReleasePanics(httpSemaphore)
     THEN /\ main' = "panic"
          /\ UNCHANGED <<httpSemaphore, pc, holdsHttp>>
     ELSE /\ httpSemaphore' = Release(httpSemaphore)
          /\ holdsHttp' = [holdsHttp EXCEPT ![u] = FALSE]
          /\ pc' = [pc EXCEPT ![u] = "return"]
          /\ UNCHANGED main
  /\ UNCHANGED <<packages, ctxDone, tarSemaphore, holdsTar, unitErr, groupErr,
                 pkgDirs, shimmed>>
  /\ UNCHANGED outsideRun

\* lines 391-396 and errgroup.Group.Go: the first error is kept in g.err and
\* cancels ctx
ReturnUnit(u) ==
  /\ Running /\ pc[u] = "return"
  /\ pc' = [pc EXCEPT ![u] = "done"]
  /\ IF unitErr[u] # NoError /\ groupErr = NoError
     THEN groupErr' = unitErr[u] /\ ctxDone' = TRUE
     ELSE UNCHANGED <<groupErr, ctxDone>>
  /\ UNCHANGED <<packages, httpSemaphore, tarSemaphore, holdsHttp, holdsTar,
                 unitErr, main, pkgDirs, shimmed>>
  /\ UNCHANGED outsideRun

(***************************************************************************)
(* The orchestrator: g.Wait(), os.Exit(1) or setupBinScripts.              *)
(***************************************************************************)
\* a Wait that returns as soon as one goroutine has returned
WaitReturnsEarly == \E u \in Units : pc[u] = "done"

\* errgroup.Group.Wait returns once every goroutine has returned
WaitReturns == \A u \in Units : pc[u] = "done"

\* lines 400-404
Wait ==
  /\ main = "wait"
  /\ WaitReturns
  /\ main' = IF groupErr # NoError THEN "exit1" ELSE "shims"
  /\ UNCHANGED <<packages, pc, ctxDone, httpSemaphore, tarSemaphore, holdsHttp,
                 holdsTar, unitErr, groupErr, pkgDirs, shimmed>>
  /\ UNCHANGED outsideRun

\* lines 629-675: one iteration of setupBinScripts' loop over the plan
SetupBinScript(u) ==
  /\ main = "shims"
  /\ u \notin shimmed
  /\ shimmed' = shimmed \cup {u}
  /\ main' = IF shimmed' = Units THEN "complete" ELSE "shims"
  /\ UNCHANGED <<packages, pc, ctxDone, httpSemaphore, tarSemaphore, holdsHttp,
                 holdsTar, unitErr, groupErr, pkgDirs>>
  /\ UNCHANGED outsideRun

InitRun ==
  /\ packages \in Plans
  /\ pc = [u \in Units |-> "start"]
  /\ ctxDone = FALSE
  /\ httpSemaphore = NewWeighted(HttpPermits)
  /\ tarSemaphore = NewWeighted(TarPermits)
  /\ holdsHttp = [u \in Units |-> FALSE]
  /\ holdsTar = [u \in Units |-> FALSE]
  /\ unitErr = [u \in Units |-> Pending]
  /\ groupErr = NoError
  /\ main = "wait"
  /\ pkgDirs = {}
  /\ shimmed = {}

\* the unit data path is not part of the install-run specification
IdleUnit ==
  /\ body = <<>> /\ integrity = <<>> /\ tampered = "none" /\ resp = "none"
  /\ upc = "idle" /\ hashed = 0 /\ consumed = 0 /\ destFiles = {}
  /\ result = Pending

\* nor is the node_modules tree
IdleInstall ==
  /\ lockfile = <<>> /\ run = 0 /\ phase = "idle" /\ ipc = <<>> /\ entry = <<>>
  /\ tree = <<>> /\ wrote = <<>> /\ firstTree = <<>> /\ binDone = {}

\* nor is the resolver
IdleResolve ==
  /\ deps = <<>> /\ resolved = <<>> /\ memoOrder = <<>> /\ rpass = "idle"
  /\ rpc = <<>> /\ rres = <<>> /\ rsem = NewWeighted(1) /\ rctxDone = FALSE
  /\ fetches = <<>> /\ warnings = {} /\ resolvedDeps = <<>>

\* nor are the callers of the semver program
IdleSemver ==
  /\ semverSemaphore = NewWeighted(1) /\ svers = {} /\ spc = <<>>
  /\ sargs = <<>> /\ sout = <<>>

\* nor is the hoister
IdleHoist ==
  /\ hdeps = <<>> /\ counts = <<>> /\ hoistPackages = <<>> /\ hoisted = <<>>
  /\ rootPackages = <<>> /\ pending = {} /\ hkeys = {} /\ hpc = "idle"

\* the environment is read before the run starts
EnvUnset == [kind |-> "unset", halves |-> 0]
IdleEnv == numCPU = 0 /\ tarWorkersEnv = EnvUnset

\* no archive is being extracted
IdleExtract ==
  /\ archive = <<>> /\ dest = <<>> /\ createdDirs = {} /\ xnext = 0 /\ xerr = "idle"

\* no lockfile is being generated
IdleLock == ldeps = <<>> /\ lockDoc = <<>>

\* nor is a tree of dependencies being resolved
IdleTree ==
  /\ metadata = <<>> /\ calls = <<>> /\ treeResolved = <<>> /\ treeSem = NewWeighted(1)

Init == InitRun /\ IdleUnit /\ IdleInstall /\ IdleResolve /\ IdleSemver /\ IdleHoist /\ IdleEnv /\ IdleExtract /\ IdleLock /\ IdleTree

Next ==
  \/ \E u \in Units : StartUnit(u)
  \/ \E u \in Units : AcquireHttp(u)
  \/ \E u \in Units : ResumeHttp(u)
  \/ \E u \in Units : GetReturns(u)
  \/ \E u \in Units : AcquireTar(u)
  \/ \E u \in Units : ResumeTar(u)
  \/ \E u \in Units : ExtractReturns(u)
  \/ \E u \in Units : CompareDigests(u)
  \/ \E u \in Units : ReleaseTar(u)
  \/ \E u \in Units : ReleaseHttp(u)
  \/ \E u \in Units : ReturnUnit(u)
  \/ Wait
  \/ \E u \in Units : SetupBinScript(u)

Spec == Init /\ [][Next]_vars

(***************************************************************************)
(* The install run from the creation of its semaphores (DownloadPackages   *)
(* lines 331-347), with the goroutines scheduled fairly. A TAR_WORKERS     *)
(* number is held in halves: 3 stands for 1.5.                             *)
(***************************************************************************)
\* most logical CPUs
MaxCPU == 2

EnvJunk == [kind |-> "junk", halves |-> 0]
EnvNumber(h) == [kind |-> "number", halves |-> h]

\* TAR_WORKERS unset, not a number, or -1, 0, 0.5, 1, 1.5
TarWorkersValues == {EnvUnset, EnvJunk} \cup {EnvNumber(h) : h \in {-2, 0, 1, 2, 3}}

\* lines 756-760: Sscanf("%f") fails on what is no number
parseFloat64(e) == [err |-> e.kind # "number", tw |-> e.halves]

TruncatedUp(halves) == (halves + 1) \div 2

\* int64(x) of a float64 that is not negative: the fraction is cut off
Int64(halves) == halves \div 2

\* lines 337-346: tarWorkers, in halves
tarWorkers(cpus, e) ==
  LET default == cpus * 3
  IN  IF e.kind # "unset" /\ ~parseFloat64(e).err /\ parseFloat64(e).tw > 0
      THEN parseFloat64(e).tw
      ELSE default

\* lines 331-347: the semaphores are created; the environment is read here
\* and nowhere else
CreateSemaphores ==
  /\ main = "setup"
  /\ httpSemaphore' = NewWeighted(HttpPermits)
  /\ tarSemaphore' = NewWeighted(Int64(tarWorkers(numCPU, tarWorkersEnv)))
  /\ main' = "wait"
  /\ numCPU' = 0 /\ tarWorkersEnv' = EnvUnset
  /\ UNCHANGED <<packages, pc, ctxDone, holdsHttp, holdsTar, unitErr, groupErr,
                 pkgDirs, shimmed>>
  /\ UNCHANGED outsideDownload

InitDownload ==
  /\ packages \in Plans
  /\ pc = [u \in Units |-> "start"]
  /\ ctxDone = FALSE
  /\ httpSemaphore = NewWeighted(0)
  /\ tarSemaphore = NewWeighted(0)
  /\ holdsHttp = [u \in Units |-> FALSE]
  /\ holdsTar = [u \in Units |-> FALSE]
  /\ unitErr = [u \in Units |-> Pending]
  /\ groupErr = NoError
  /\ main = "setup"
  /\ pkgDirs = {}
  /\ shimmed = {}
  /\ numCPU \in 1..MaxCPU
  /\ tarWorkersEnv \in TarWorkersValues
  /\ IdleUnit /\ IdleInstall /\ IdleResolve /\ IdleSemver /\ IdleHoist
  /\ IdleExtract /\ IdleLock /\ IdleTree

NextDownload ==
  \/ CreateSemaphores
  \/ \E u \in Units : StartUnit(u)
  \/ \E u \in Units : AcquireHttp(u)
  \/ \E u \in Units : ResumeHttp(u)
  \/ \E u \in Units : GetReturns(u)
  \/ \E u \in Units : AcquireTar(u)
  \/ \E u \in Units : ResumeTar(u)
  \/ \E u \in Units : ExtractReturns(u)
  \/ \E u \in Units : CompareDigests(u)
  \/ \E u \in Units : ReleaseTar(u)
  \/ \E u \in Units : ReleaseHttp(u)
  \/ \E u \in Units : ReturnUnit(u)
  \/ Wait
  \/ \E u \in Units : SetupBinScript(u)

\* every goroutine that can take a step eventually takes one; the servers
\* answer every request and the extractor returns
FairDownload ==
  /\ WF_vars(CreateSemaphores)
  /\ WF_vars(Wait)
  /\ \A u \in Units :
       /\ WF_vars(StartUnit(u)) /\ WF_vars(AcquireHttp(u)) /\ WF_vars(ResumeHttp(u))
       /\ WF_vars(GetReturns(u)) /\ WF_vars(AcquireTar(u)) /\ WF_vars(ResumeTar(u))
       /\ WF_vars(ExtractReturns(u)) /\ WF_vars(CompareDigests(u))
       /\ WF_vars(ReleaseTar(u)) /\ WF_vars(ReleaseHttp(u)) /\ WF_vars(ReturnUnit(u))
       /\ WF_vars(SetupBinScript(u))

SpecDownload == InitDownload /\ [][NextDownload]_vars /\ FairDownload

(***************************************************************************)
(* The data path of one fetch-extract unit: downloadAndExtractPackage with *)
(* extractTarGz, the response body read through the TeeReader.             *)
(*                                                                         *)
(* The gzip/tar stream is a sequence of bytes over a small alphabet: a     *)
(* byte is one tar entry, the end-of-archive marker, or a corrupt byte the *)
(* readers reject. Bytes after the marker are what the tar reader never    *)
(* asks for (padding, the gzip trailer, anything the server appends).      *)
(***************************************************************************)
\* longest response body
MaxBody == 3

EndOfArchive == 0
CorruptByte == 3
Bytes == 0..3

\* the tar header and content a byte of the stream stands for
TarEntry(b) ==
  IF b = 1 THEN [Typeflag |-> "reg", Name |-> <<"package", "index.js">>, Data |-> <<1>>]
           ELSE [Typeflag |-> "reg", Name |-> <<"cli.js">>, Data |-> <<2>>]

Bodies == UNION { [1..n -> Bytes] : n \in 0..MaxBody }

\* Characters of an integrity tag: the 64 base64 digits by value ('A' = 0 ..
\* 'Z' = 25, 'a' = 26 .. 'z' = 51, '0' = 52 .. '9' = 61, '+', '/'), then '-',
\* '=' and any other byte.
Dash == 64
Pad == 65
OtherChar == 66
Chars == 0..66
IsDigit(c) == c \in 0..63

\* "sha1-" and "sha512-"
Sha1Prefix == <<44, 33, 26, 53, Dash>>
Sha512Prefix == <<44, 33, 26, 57, 53, 54, Dash>>

HasPrefix(t, p) == Len(t) >= Len(p) /\ SubSeq(t, 1, Len(p)) = p

\* The digest of a byte sequence, 2 bytes wide in the model. sha1 and sha512
\* are taken to be cryptographic: one-to-one on the bodies of the model
\* (PositionalCode is a base-4 positional code of the sequence, led by a 1),
\* and the digests of two different sequences differ in at least two of
\* their base64 digits (Spread sets the three digits to u + v, v and u for
\* the code 16 * v + u), so that no one-character change turns the tag of
\* one stream into the tag of another.
RECURSIVE PositionalCode(_)
PositionalCode(bs) ==
  IF bs = <<>> THEN 1
  ELSE PositionalCode(SubSeq(bs, 1, Len(bs) - 1)) * 4 + bs[Len(bs)]

Spread(x) == ((x % 16) + (x \div 16)) * 1024 + (x \div 16) * 16 + (x % 16)

Sum(alg, bs) ==
  LET h == IF alg = "sha1" THEN Spread(PositionalCode(bs))
                           ELSE 65535 - Spread(PositionalCode(bs))
  IN  <<h \div 256, h % 256>>

\* base64.StdEncoding.EncodeToString of a 2-byte digest: three digits and '='
EncodeToString(d) ==
  << d[1] \div 4, (d[1] % 4) * 16 + d[2] \div 16, (d[2] % 16) * 4, Pad >>

\* base64.StdEncoding.DecodeString (padded, not strict: the unused low bits
\* of the last digit are ignored)
DecodeString(t) ==
  IF t = <<>> THEN [ok |-> TRUE, bytes |-> <<>>]
  ELSE IF Len(t) # 4 \/ ~IsDigit(t[1]) \/ ~IsDigit(t[2]) THEN [ok |-> FALSE, bytes |-> <<>>]
  ELSE LET b1 == t[1] * 4 + t[2] \div 16
           b2 == (t[2] % 16) * 16 + t[3] \div 4
           b3 == (t[3] % 4) * 64 + t[4]
       IN  IF IsDigit(t[3]) /\ IsDigit(t[4]) THEN [ok |-> TRUE, bytes |-> <<b1, b2, b3>>]
           ELSE IF IsDigit(t[3]) /\ t[4] = Pad THEN [ok |-> TRUE, bytes |-> <<b1, b2>>]
           ELSE IF t[3] = Pad /\ t[4] = Pad THEN [ok |-> TRUE, bytes |-> <<b1>>]
           ELSE [ok |-> FALSE, bytes |-> <<>>]

\* strings.Split(integrity, "-")[1]: what lies between the first and the
\* second '-'
RECURSIVE UpToDash(_)
UpToDash(t) ==
  IF t = <<>> \/ Head(t) = Dash THEN <<>> ELSE <<Head(t)>> \o UpToDash(Tail(t))

SplitField1(t) ==
  LET first == CHOOSE i \in 1..Len(t) : t[i] = Dash /\ \A j \in 1..(i - 1) : t[j] # Dash
  IN  UpToDash(SubSeq(t, first + 1, Len(t)))

HashForAny(t) == IF HasPrefix(t, Sha512Prefix) THEN "sha512" ELSE "sha1"

\* lines 435-443: the hash the tag's prefix selects, "" when unsupported
HashFor(t) ==
  IF HasPrefix(t, Sha1Prefix) THEN "sha1"
  ELSE IF HasPrefix(t, Sha512Prefix) THEN "sha512"
  ELSE ""

\* compareHashes with the length test only
compareLengths(a, b) == Len(a) = Len(b)

\* lines 489-499
compareHashes(a, b) ==
  /\ Len(a) = Len(b)
  /\ \A i \in 1..Len(a) : a[i] = b[i]

\* the well-formed tag of a body
IntegrityOf(alg, bs) ==
  (IF alg = "sha1" THEN Sha1Prefix ELSE Sha512Prefix) \o EncodeToString(Sum(alg, bs))

\* lines 535-538: the leading "package/" is cut from the entry's name
StripPackagePrefix(name) ==
  IF Len(name) >= 2 /\ name[1] = "package" THEN Tail(name) ELSE name

\* lines 569-593: OpenFile(O_CREATE|O_RDWR) and io.Copy write the content
\* from offset 0; what an existing file holds beyond it stays
WriteFile(files, name, data) ==
  LET old == {f \in files : f.Name = name}
      rest == IF old = {} THEN <<>>
              ELSE LET o == (CHOOSE f \in old : TRUE).Data
                   IN  SubSeq(o, Len(data) + 1, Len(o))
  IN  (files \ old) \cup {[Name |-> name, Data |-> data \o rest]}

\* lines 419-447: client.Get returns; the status, then the tag's prefix
GetResponse ==
  /\ upc = "get"
  /\ \E r \in {"HTTPError", "HTTPStatus", "200"} :
       /\ resp' = r
       /\ IF r # "200"
          THEN upc' = "done" /\ result' = r
          ELSE IF HashFor(integrity) = ""
          THEN upc' = "done" /\ result' = "UnsupportedIntegrity"
          ELSE upc' = "extract" /\ UNCHANGED result
  /\ UNCHANGED <<body, integrity, tampered, hashed, consumed, destFiles>>
  /\ UNCHANGED outsideUnit

\* lines 504-619: gzip.NewReader on the first pass, then one pass of
\* extractTarGz's loop. The buffered reader asks the body for more only when
\* the decoders have used up what it read; each read returns a chunk of any
\* size, and the TeeReader hashes what was read.
ExtractNext ==
  /\ upc = "extract"
  /\ IF body = <<>>
     THEN \* gzip.NewReader fails on an empty stream
          /\ upc' = "done" /\ result' = "ExtractError"
          /\ UNCHANGED <<hashed, consumed, destFiles>>
     ELSE IF consumed = hashed /\ hashed = Len(body)
     THEN \* the stream ends: tr.Next() returns io.EOF
          /\ upc' = "verify"
          /\ UNCHANGED <<hashed, consumed, destFiles, result>>
     ELSE \E n \in 0..(Len(body) - hashed) :
            /\ (n = 0) = (consumed < hashed)
            /\ hashed' = hashed + n
            /\ consumed' = consumed + 1
            /\ LET b == body[consumed + 1]
                   name == StripPackagePrefix(TarEntry(b).Name)
               IN  IF b = EndOfArchive
                   THEN upc' = "verify" /\ UNCHANGED <<destFiles, result>>
                   ELSE IF b = CorruptByte
                   THEN upc' = "done" /\ result' = "ExtractError"
                        /\ UNCHANGED destFiles
                   ELSE /\ destFiles' = WriteFile(destFiles, name, TarEntry(b).Data)
                        /\ UNCHANGED <<upc, result>>
  /\ UNCHANGED <<body, integrity, tampered, resp>>
  /\ UNCHANGED outsideUnit

\* lines 458-471: the tag's digest is decoded and compared to the hash of the
\* bytes that went through the TeeReader
VerifyIntegrity ==
  /\ upc = "verify"
  /\ LET expected == DecodeString(SplitField1(integrity))
         actual == Sum(HashFor(integrity), SubSeq(body, 1, hashed))
     IN  result' = IF ~expected.ok THEN "IntegrityMalformed"
                   ELSE IF ~compareHashes(actual, expected.bytes) THEN "IntegrityMismatch"
                   ELSE NoError
  /\ upc' = "done"
  /\ UNCHANGED <<body, integrity, tampered, resp, hashed, consumed, destFiles>>
  /\ UNCHANGED outsideUnit

\* s with its i-th element replaced by x
Replace(s, i, x) == [s EXCEPT ![i] = x]

\* the install run is not part of the unit specification
IdleRun ==
  /\ packages = <<>> /\ pc = <<>> /\ ctxDone = FALSE
  /\ httpSemaphore = NewWeighted(HttpPermits) /\ tarSemaphore = NewWeighted(TarPermits)
  /\ holdsHttp = <<>> /\ holdsTar = <<>> /\ unitErr = <<>> /\ groupErr = NoError
  /\ main = "idle" /\ pkgDirs = {} /\ shimmed = {}

\* A tag and a body that match, or such a pair with one byte of the tag or of
\* the body altered.
InitUnit ==
  /\ \E alg \in {"sha1", "sha512"}, bs \in Bodies :
       LET tag == IntegrityOf(alg, bs)
       IN  \/ body = bs /\ integrity = tag /\ tampered = "none"
           \/ \E i \in 1..Len(tag), c \in Chars :
                /\ c # tag[i]
                /\ body = bs /\ integrity = Replace(tag, i, c) /\ tampered = "tag"
           \/ \E i \in 1..Len(bs), b \in Bytes :
                /\ b # bs[i]
                /\ body = Replace(bs, i, b) /\ integrity = tag /\ tampered = "stream"
  /\ resp = "none" /\ upc = "get" /\ hashed = 0 /\ consumed = 0
  /\ destFiles = {} /\ result = Pending
  /\ IdleRun /\ IdleInstall /\ IdleResolve /\ IdleSemver /\ IdleHoist /\ IdleEnv /\ IdleExtract /\ IdleLock /\ IdleTree

NextUnit == GetResponse \/ ExtractNext \/ VerifyIntegrity

SpecUnit == InitUnit /\ [][NextUnit]_vars

(***************************************************************************)
(* The node_modules tree: InstallLockFile run twice on one lockfile. Every *)
(* entry has a download URL, is for the current OS, and its download and   *)
(* integrity check succeed; what is modelled is what the units and         *)
(* setupBinScripts do to the filesystem. The units' entries interleave in  *)
(* any order: the semaphores let several units extract at once.            *)
(*                                                                         *)
(* A path is the sequence of its components below node_modules.            *)
(***************************************************************************)
\* most entries in a lockfile
MaxPackages == 2

\* lockfile keys: the bare-name form, the node_modules/<name> form and the
\* nested form
PackageKeys ==
  { <<"a">>, <<"node_modules", "a">>, <<"node_modules", "b">>,
    <<"node_modules", "a", "node_modules", "b">> }

\* the contents of the tarballs the lockfile's URLs stand for
TarballNames == {"plain", "binstr", "binmap", "bundle"}
Tarball(t) ==
  CASE t = "plain" ->
         << [Typeflag |-> "reg", Name |-> <<"package", "package.json">>, Data |-> <<"{}">>],
            [Typeflag |-> "reg", Name |-> <<"package", "cli.js">>, Data |-> <<"js">>] >>
    [] t = "binstr" ->
         << [Typeflag |-> "reg", Name |-> <<"package", "package.json">>,
             Data |-> <<"{bin:'cli.js'}">>],
            [Typeflag |-> "reg", Name |-> <<"package", "cli.js">>, Data |-> <<"js">>] >>
    [] t = "binmap" ->
         << [Typeflag |-> "reg", Name |-> <<"package", "package.json">>,
             Data |-> <<"{bin:{run:'cli.js'}}">>],
            [Typeflag |-> "reg", Name |-> <<"package", "cli.js">>, Data |-> <<"js">>] >>
    [] OTHER ->
         << [Typeflag |-> "reg", Name |-> <<"package", "package.json">>, Data |-> <<"{}">>],
            [Typeflag |-> "reg", Name |-> <<"package", "node_modules", "b", "cli.js">>,
             Data |-> <<"bundled">>] >>

\* PackageInfo.Bin of a lockfile record: a map, here a set of [cmd, script]
LockBins == { {}, {[cmd |-> "run", script |-> <<"cli.js">>]} }

LockFiles ==
  UNION { [K -> [Bin : LockBins, Tarball : TarballNames]] :
            K \in {S \in SUBSET PackageKeys : Cardinality(S) \in 1..MaxPackages} }

\* filesystem nodes
DirNode == [kind |-> "dir", data |-> <<>>, mode |-> "0755", target |-> <<>>]
FileNode(d, m) == [kind |-> "file", data |-> d, mode |-> m, target |-> <<>>]
LinkNode(t) == [kind |-> "link", data |-> <<>>, mode |-> "0777", target |-> t]

\* filepath.Dir
ParentDir(p) == SubSeq(p, 1, Len(p) - 1)

\* the path and its ancestors below node_modules
Prefixes(p) == {SubSeq(p, 1, n) : n \in 1..Len(p)}

\* os.MkdirAll: fails when the path or an ancestor is not a directory,
\* creates what is missing
MkdirAllFails(t, p) == \E q \in Prefixes(p) : q \in DOMAIN t /\ t[q].kind # "dir"
MkdirAll(t, p) ==
  [q \in DOMAIN t \cup Prefixes(p) |-> IF q \in DOMAIN t THEN t[q] ELSE DirNode]

\* os.OpenFile(target, O_CREATE|O_RDWR, mode) and io.Copy: a new file gets the
\* header's mode; an existing one keeps its mode and what it holds beyond
\* the bytes written
OpenFileFails(t, p) == p \in DOMAIN t /\ t[p].kind = "dir"
CopyToFile(t, p, data) ==
  LET old == IF p \in DOMAIN t THEN t[p].data ELSE <<>>
      m == IF p \in DOMAIN t THEN t[p].mode ELSE "0644"
      node == FileNode(data \o SubSeq(old, Len(data) + 1, Len(old)), m)
  IN  [q \in DOMAIN t \cup {p} |-> IF q = p THEN node ELSE t[q]]

\* lines 378-381 and 648-651: one leading "node_modules/" is cut from the key
NormalizedPkgName(key) ==
  IF Len(key) >= 2 /\ key[1] = "node_modules" THEN Tail(key) ELSE key

\* lines 326-330 after cleanNodeModules and MkdirAll(nodeModulesPath): the
\* tree holds the empty .bin
EmptyNodeModules == [q \in {<<".bin">>} |-> DirNode]

\* lines 385-388: MkdirAll(pkgPath)
MkdirPkgPath(k) ==
  /\ phase = "units" /\ k \in DOMAIN lockfile /\ ipc[k] = "mkdir"
  /\ LET pkgPath == NormalizedPkgName(k)
     IN  IF MkdirAllFails(tree, pkgPath)
         THEN /\ ipc' = [ipc EXCEPT ![k] = "failed"]
              /\ UNCHANGED <<tree, wrote>>
         ELSE /\ ipc' = [ipc EXCEPT ![k] = "extract"]
              /\ tree' = MkdirAll(tree, pkgPath)
              /\ wrote' = [wrote EXCEPT ![k] = @ \cup (Prefixes(pkgPath) \ DOMAIN tree)]
  /\ UNCHANGED <<lockfile, run, phase, entry, firstTree, binDone>>
  /\ UNCHANGED outsideInstall

\* lines 524-593: one pass of extractTarGz's loop over a regular file, or
\* the end of the archive
ExtractEntry(k) ==
  /\ phase = "units" /\ k \in DOMAIN lockfile /\ ipc[k] = "extract"
  /\ LET entries == Tarball(lockfile[k].Tarball)
     IN  IF entry[k] > Len(entries)
         THEN /\ ipc' = [ipc EXCEPT ![k] = "done"]
              /\ UNCHANGED <<entry, tree, wrote>>
         ELSE LET name == StripPackagePrefix(entries[entry[k]].Name)
                  target == NormalizedPkgName(k) \o name
                  dir == ParentDir(target)
              IN  IF MkdirAllFails(tree, dir) \/ OpenFileFails(MkdirAll(tree, dir), target)
                  THEN /\ ipc' = [ipc EXCEPT ![k] = "failed"]
                       /\ tree' = IF MkdirAllFails(tree, dir) THEN tree ELSE MkdirAll(tree, dir)
                       /\ wrote' = [wrote EXCEPT ![k] =
                                      IF MkdirAllFails(tree, dir) THEN @
                                      ELSE @ \cup (Prefixes(dir) \ DOMAIN tree)]
                       /\ UNCHANGED entry
                  ELSE /\ tree' = CopyToFile(MkdirAll(tree, dir), target, entries[entry[k]].Data)
                       /\ wrote' = [wrote EXCEPT ![k] =
                                      @ \cup (Prefixes(dir) \ DOMAIN tree) \cup {target}]
                       /\ entry' = [entry EXCEPT ![k] = @ + 1]
                       /\ UNCHANGED ipc
  /\ UNCHANGED <<lockfile, run, phase, firstTree, binDone>>
  /\ UNCHANGED outsideInstall

\* lines 399-406: g.Wait() returns when every unit has returned
WaitForUnits ==
  /\ phase = "units"
  /\ \A k \in DOMAIN lockfile : ipc[k] \in {"done", "failed"}
  /\ phase' = IF \E k \in DOMAIN lockfile : ipc[k] = "failed" THEN "exit1" ELSE "shims"
  /\ UNCHANGED <<lockfile, run, ipc, entry, tree, wrote, firstTree, binDone>>
  /\ UNCHANGED outsideInstall

\* json.Unmarshal of a package.json into {Name, Bin}
Unmarshal(data) ==
  CASE data = <<"{}">> ->
         [ok |-> TRUE, Name |-> "", BinType |-> "nil", BinString |-> <<>>, BinMap |-> {}]
    [] data = <<"{bin:'cli.js'}">> ->
         [ok |-> TRUE, Name |-> "", BinType |-> "string", BinString |-> <<"cli.js">>,
          BinMap |-> {}]
    [] data = <<"{bin:{run:'cli.js'}}">> ->
         [ok |-> TRUE, Name |-> "", BinType |-> "map", BinString |-> <<>>,
          BinMap |-> {[cmd |-> "run", script |-> <<"cli.js">>]}]
    [] OTHER ->
         [ok |-> FALSE, Name |-> "", BinType |-> "nil", BinString |-> <<>>, BinMap |-> {}]

\* lines 679-718: the bin map of the package.json at packageJSONPath; the
\* command of a string bin is the package.json's name or, without one, the
\* last segment of pkgName
readPackageJSONBin(t, packageJSONPath, pkgName) ==
  IF packageJSONPath \notin DOMAIN t \/ t[packageJSONPath].kind # "file"
  THEN [err |-> TRUE, bin |-> {}]
  ELSE LET j == Unmarshal(t[packageJSONPath].data)
       IN  IF ~j.ok THEN [err |-> TRUE, bin |-> {}]
           ELSE IF j.BinType = "string"
           THEN [err |-> FALSE,
                 bin |-> {[cmd |-> IF j.Name = "" THEN pkgName[Len(pkgName)] ELSE j.Name,
                           script |-> j.BinString]}]
           ELSE IF j.BinType = "map" THEN [err |-> FALSE, bin |-> j.BinMap]
           ELSE [err |-> FALSE, bin |-> {}]

\* filepath.Rel of two paths below node_modules
RECURSIVE CommonPrefixLen(_, _)
CommonPrefixLen(a, b) ==
  IF a = <<>> \/ b = <<>> \/ Head(a) # Head(b) THEN 0
  ELSE 1 + CommonPrefixLen(Tail(a), Tail(b))

\* the target path itself, not taken relative to the link's directory
RelNotRelative(basepath, targpath) == targpath

Rel(basepath, targpath) ==
  LET n == CommonPrefixLen(basepath, targpath)
  IN  [i \in 1..(Len(basepath) - n) |-> ".."] \o SubSeq(targpath, n + 1, Len(targpath))

\* lines 721-753: Stat, Chmod 0755, Remove of what is at linkPath, Symlink to
\* the relative path
createExecutableSymlink(t, targetPath, linkPath) ==
  IF targetPath \notin DOMAIN t THEN t
  ELSE LET chmodded == [t EXCEPT ![targetPath].mode = "0755"]
           nonEmptyDir == /\ linkPath \in DOMAIN t
                          /\ \E q \in DOMAIN t : Len(q) > Len(linkPath)
                                                 /\ SubSeq(q, 1, Len(linkPath)) = linkPath
           relTargetPath == Rel(ParentDir(linkPath), targetPath)
       IN  IF nonEmptyDir THEN chmodded
           ELSE IF ParentDir(linkPath) \notin DOMAIN t
           THEN [q \in DOMAIN t \ {linkPath} |-> chmodded[q]]
           ELSE [q \in DOMAIN t \cup {linkPath} |->
                   IF q = linkPath THEN LinkNode(relTargetPath) ELSE chmodded[q]]

\* lines 640-673: the entries of one package's bin map. The map's own order
\* of iteration is immaterial: its commands are distinct, so are their links.
RECURSIVE LinkBinEntries(_, _, _)
LinkBinEntries(t, k, bin) ==
  IF bin = {} THEN t
  ELSE LET e == CHOOSE x \in bin : TRUE
           scriptFullPath == NormalizedPkgName(k) \o e.script
           linked == IF e.cmd = "" \/ e.script = <<>> \/ scriptFullPath \notin DOMAIN t
                     THEN t
                     ELSE createExecutableSymlink(t, scriptFullPath, <<".bin", e.cmd>>)
       IN  LinkBinEntries(linked, k, bin \ {e})

\* lines 632-633: the package.json setupBinScripts reads for a record without
\* bin, at filepath.Join(nodeModulesPath, pkgName, "package.json") with the
\* key as it stands in the lockfile
packageJSONPath(k) == k \o <<"package.json">>

\* lines 630-674: one pass of setupBinScripts' loop; the packages map is
\* ranged over in an order that differs from run to run
SetupBinScripts(k) ==
  /\ phase = "shims" /\ k \in DOMAIN lockfile /\ k \notin binDone
  /\ LET binInfo == readPackageJSONBin(tree, packageJSONPath(k), k)
         bin == IF lockfile[k].Bin # {} THEN lockfile[k].Bin
                ELSE IF binInfo.err THEN {} ELSE binInfo.bin
     IN  tree' = LinkBinEntries(tree, k, bin)
  /\ binDone' = binDone \cup {k}
  /\ UNCHANGED <<lockfile, run, phase, ipc, entry, wrote, firstTree>>
  /\ UNCHANGED outsideInstall

\* line 266: DownloadPackages returns, "Installation complete!"
InstallationComplete ==
  /\ phase = "shims" /\ binDone = DOMAIN lockfile
  /\ phase' = "complete"
  /\ UNCHANGED <<lockfile, run, ipc, entry, tree, wrote, firstTree, binDone>>
  /\ UNCHANGED outsideInstall

\* lines 249-263 and 326-330: install-lockfile is run again on the lockfile;
\* node_modules is removed in full and made anew with its .bin
InstallAgain ==
  /\ phase = "complete" /\ run = 1
  /\ run' = 2
  /\ firstTree' = tree
  /\ tree' = EmptyNodeModules
  /\ phase' = "units"
  /\ ipc' = [k \in DOMAIN lockfile |-> "mkdir"]
  /\ entry' = [k \in DOMAIN lockfile |-> 1]
  /\ wrote' = [k \in DOMAIN lockfile |-> {}]
  /\ binDone' = {}
  /\ UNCHANGED lockfile
  /\ UNCHANGED outsideInstall

InitInstall ==
  /\ lockfile \in LockFiles
  /\ run = 1
  /\ phase = "units"
  /\ ipc = [k \in DOMAIN lockfile |-> "mkdir"]
  /\ entry = [k \in DOMAIN lockfile |-> 1]
  /\ tree = EmptyNodeModules
  /\ wrote = [k \in DOMAIN lockfile |-> {}]
  /\ firstTree = EmptyNodeModules
  /\ binDone = {}
  /\ IdleRun /\ IdleUnit /\ IdleResolve /\ IdleSemver /\ IdleHoist /\ IdleEnv /\ IdleExtract /\ IdleLock /\ IdleTree

NextInstall ==
  \/ \E k \in PackageKeys : MkdirPkgPath(k)
  \/ \E k \in PackageKeys : ExtractEntry(k)
  \/ WaitForUnits
  \/ \E k \in PackageKeys : SetupBinScripts(k)
  \/ InstallationComplete
  \/ InstallAgain

SpecInstall == InitInstall /\ [][NextInstall]_vars


(***************************************************************************)
(* The resolver (resolve.go): ResolveDependencies on a top-level list, its *)
(* two passes (collectPeerDependencies, then the resolution proper) each   *)
(* an error group of concurrent ResolveDependency calls sharing the memo   *)
(* and the semaphore. The registry's packages have no dependencies of      *)
(* their own, so a call does not recurse.                                  *)
(*                                                                         *)
(* Versions are numbers (1 for 1.0.0, 2 for 2.0.0, ...); a range is an     *)
(* exact version, an interval of versions, or a word that is no range.     *)
(***************************************************************************)
\* longest top-level list
MaxDeps == 2
\* permits of the resolver's semaphore
ResolvePermits == 1

Names == {"foo", "bar"}

Exact(v) == [kind |-> "exact", lo |-> v, hi |-> v, word |-> ""]
Between(lo, hi) == [kind |-> "range", lo |-> lo, hi |-> hi, word |-> ""]
Word(w) == [kind |-> "word", lo |-> 0, hi |-> 0, word |-> w]

\* what a top-level list may ask for
Requests ==
  { [Name |-> "foo", Version |-> r] :
      r \in {Exact(1), Exact(2), Between(1, 2), Between(1, 3), Exact(9),
             Word("latest"), Word("bogus")} }
  \cup { [Name |-> "bar", Version |-> Exact(1)] }

DepLists == UNION { [1..n -> Requests] : n \in 1..MaxDeps }

\* the registry's metadata documents: metadata.Versions and metadata.DistTags.
\* foo 3.0.0 has no dist.integrity; foo 2.0.0 has the peer dependency bar.
RegistryVersions(name) == IF name = "foo" THEN {1, 2, 3} ELSE {1}
VersionEntry(name, v) ==
  [ Name |-> name, Version |-> v,
    Tarball |-> "tarball",
    Integrity |-> IF name = "foo" /\ v = 3 THEN "" ELSE "sha512-",
    PeerDependencies |-> IF name = "foo" /\ v = 2 THEN {"bar"} ELSE {} ]
DistTags(name) == [w \in {"latest"} |-> IF name = "foo" THEN 2 ELSE 1]

\* PackageInfo{}
NoEntry ==
  [Name |-> "", Version |-> 0, Tarball |-> "", Integrity |-> "", PeerDependencies |-> {}]

\* the semver program: a version satisfies a range
Satisfies(v, r) == r.kind # "word" /\ r.lo <= v /\ v <= r.hi

RECURSIVE SortDescending(_)
SortDescending(S) ==
  IF S = {} THEN <<>>
  ELSE LET m == CHOOSE x \in S : \A y \in S : x >= y
       IN  <<m>> \o SortDescending(S \ {m})

\* the semver program prints the satisfying versions in ascending order
RECURSIVE SortAscending(_)
SortAscending(S) ==
  IF S = {} THEN <<>>
  ELSE LET m == CHOOSE x \in S : \A y \in S : x <= y
       IN  <<m>> \o SortAscending(S \ {m})

GetAllVersions(version, versions) ==
  [err |-> FALSE, matches |-> SortAscending(versions)]

\* semver.go lines 45-58: the program fails (exit status 1) on an invalid
\* range and when no version satisfies the range
GetMatchingVersions(version, versions) ==
  LET m == {v \in versions : Satisfies(v, version)}
  IN  IF version.kind = "word" \/ m = {}
      THEN [err |-> TRUE, matches |-> <<>>]
      ELSE [err |-> FALSE, matches |-> SortAscending(m)]

Returned(e, pkgInfo, from) == [err |-> e, entry |-> pkgInfo, from |-> from]

\* resolve.go lines 384-416
latestMatchingVersion(version, name) ==
  LET g == GetMatchingVersions(version, RegistryVersions(name))
  IN  IF g.err THEN Returned("SemverError", NoEntry, "registry")
      ELSE IF Len(g.matches) = 0 THEN Returned("NoMatchingVersions", NoEntry, "registry")
      ELSE LET pkgInfo == VersionEntry(name, g.matches[Len(g.matches)])
           IN  IF pkgInfo.Tarball = "" \/ pkgInfo.Integrity = ""
               THEN Returned("MetadataIncomplete", NoEntry, "registry")
               ELSE Returned(NoError, pkgInfo, "registry")

\* resolve.go lines 145-171: the range is matched, or taken as a dist-tag
SelectVersion(name, version) ==
  IF GetMatchingVersions(version, RegistryVersions(name)).err
  THEN IF version.kind = "word" /\ version.word \in DOMAIN DistTags(name)
       THEN latestMatchingVersion(Exact(DistTags(name)[version.word]), name)
       ELSE Returned("UnknownVersionOrTag", NoEntry, "registry")
  ELSE latestMatchingVersion(version, name)

\* any memoized entry of the name, whatever its version
KeysOfName(name, version) == {k \in DOMAIN resolved : k[1] = name}

\* resolve.go lines 117-128: the memoized entries of the name whose version
\* satisfies the range
CompatibleKeys(name, version) ==
  {k \in DOMAIN resolved :
     /\ k[1] = name
     /\ ~GetMatchingVersions(version, {resolved[k].Version}).err}

ResolveRunning == rpass \in {"peers", "resolve"}

\* the call returns to its goroutine: the group records the first error and
\* cancels its context (errgroup); collectPeerDependencies' goroutine then
\* warns of the peers that are no direct dependency (lines 47-63)
CallReturns(i, r) ==
  /\ rpc' = [rpc EXCEPT ![i] = "done"]
  /\ rres' = [rres EXCEPT ![i] = r]
  /\ rctxDone' = (rctxDone \/ r.err # NoError)
  /\ warnings' =
       IF rpass = "peers" /\ r.err = NoError
       THEN warnings \cup
              {<<deps[i].Name, n>> :
                 n \in r.entry.PeerDependencies \ {deps[j].Name : j \in DOMAIN deps}}
       ELSE warnings

\* lines 116-129: the memo is ranged over under the read lock; the first
\* compatible entry met is returned, and a map is ranged over in any order
ScanResolved(i) ==
  /\ ResolveRunning /\ i \in DOMAIN deps /\ rpc[i] = "scan"
  /\ IF CompatibleKeys(deps[i].Name, deps[i].Version) = {}
     THEN /\ rpc' = [rpc EXCEPT ![i] = "acquire"]
          /\ UNCHANGED <<rres, rctxDone, warnings>>
     ELSE \E k \in CompatibleKeys(deps[i].Name, deps[i].Version) :
            CallReturns(i, Returned(NoError, resolved[k], "memo"))
  /\ UNCHANGED <<deps, resolved, memoOrder, rpass, rsem, fetches, resolvedDeps>>
  /\ UNCHANGED outsideResolve

\* lines 134-137: semaphore.Acquire(ctx, 1), its error returned
AcquireSlot(i) ==
  /\ ResolveRunning /\ i \in DOMAIN deps /\ rpc[i] = "acquire"
  /\ IF rctxDone
     THEN /\ CallReturns(i, Returned("Canceled", NoEntry, "none"))
          /\ UNCHANGED rsem
     ELSE IF CanAcquireNow(rsem)
     THEN /\ rsem' = [rsem EXCEPT !.cur = @ + 1]
          /\ rpc' = [rpc EXCEPT ![i] = "fetch"]
          /\ UNCHANGED <<rres, rctxDone, warnings>>
     ELSE /\ rsem' = [rsem EXCEPT !.waiters = Append(@, i)]
          /\ rpc' = [rpc EXCEPT ![i] = "wait"]
          /\ UNCHANGED <<rres, rctxDone, warnings>>
  /\ UNCHANGED <<deps, resolved, memoOrder, rpass, fetches, resolvedDeps>>
  /\ UNCHANGED outsideResolve

\* lines 134-137, a blocked Acquire returning
ResumeSlot(i) ==
  /\ ResolveRunning /\ i \in DOMAIN deps /\ rpc[i] = "wait"
  /\ i \in rsem.ready \/ rctxDone
  /\ LET r == AcquireResumes(rsem, i, rctxDone)
     IN  /\ rsem' = r.sem
         /\ IF r.ok
            THEN /\ rpc' = [rpc EXCEPT ![i] = "fetch"]
                 /\ UNCHANGED <<rres, rctxDone, warnings>>
            ELSE CallReturns(i, Returned("Canceled", NoEntry, "none"))
  /\ UNCHANGED <<deps, resolved, memoOrder, rpass, fetches, resolvedDeps>>
  /\ UNCHANGED outsideResolve

\* lines 139-215: the metadata GET (it fails when the context is cancelled),
\* the version selected, the entry memoized under name@range, the permit
\* released on return
FetchAndMemoize(i) ==
  /\ ResolveRunning /\ i \in DOMAIN deps /\ rpc[i] = "fetch"
  /\ fetches' = [fetches EXCEPT ![deps[i].Name] = @ + 1]
  /\ rsem' = Release(rsem)
  /\ \E ok \in IF rctxDone THEN {FALSE} ELSE BOOLEAN :
       LET r == IF ok THEN SelectVersion(deps[i].Name, deps[i].Version)
                ELSE Returned("RegistryError", NoEntry, "registry")
           uniqueKey == <<deps[i].Name, deps[i].Version>>
       IN  /\ CallReturns(i, r)
           /\ IF r.err = NoError
              THEN /\ resolved' = [k \in DOMAIN resolved \cup {uniqueKey} |->
                                     IF k = uniqueKey THEN r.entry ELSE resolved[k]]
                   /\ memoOrder' = IF uniqueKey \in DOMAIN resolved THEN memoOrder
                                   ELSE Append(memoOrder, uniqueKey)
              ELSE UNCHANGED <<resolved, memoOrder>>
  /\ UNCHANGED <<deps, rpass, resolvedDeps>>
  /\ UNCHANGED outsideResolve

AllReturned == \A i \in DOMAIN deps : rpc[i] = "done"
SomeFailed == \E i \in DOMAIN deps : rres[i].err # NoError

\* lines 69-76 and 84-90: collectPeerDependencies' g.Wait() returns; on an
\* error ResolveDependencies returns it, else the second group starts
PeersCollected ==
  /\ rpass = "peers" /\ AllReturned
  /\ IF SomeFailed
     THEN /\ rpass' = "failed"
          /\ UNCHANGED <<rpc, rres, rctxDone>>
     ELSE /\ rpass' = "resolve"
          /\ rpc' = [i \in DOMAIN deps |-> "scan"]
          /\ rres' = [i \in DOMAIN deps |-> Returned(Pending, NoEntry, "none")]
          /\ rctxDone' = FALSE
  /\ UNCHANGED <<deps, resolved, memoOrder, rsem, fetches, warnings, resolvedDeps>>
  /\ UNCHANGED outsideResolve

WithPeersAdded(results) ==
  LET peers == UNION {results[i].entry.PeerDependencies : i \in DOMAIN results}
          \ {results[i].entry.Name : i \in DOMAIN results}
      list == [i \in DOMAIN results |-> results[i].entry]
  IN  IF peers = {} THEN list
      ELSE LET p == CHOOSE n \in peers : TRUE
           IN  Append(list, VersionEntry(p, DistTags(p)["latest"]))

\* lines 91-108: resolvedDeps[i] is what the call for dependencies[i] returned
ResolvedList(results) == [i \in DOMAIN results |-> results[i].entry]

\* lines 105-108: the second g.Wait() returns
ResolveDependenciesReturns ==
  /\ rpass = "resolve" /\ AllReturned
  /\ IF SomeFailed
     THEN rpass' = "failed" /\ UNCHANGED resolvedDeps
     ELSE rpass' = "done" /\ resolvedDeps' = ResolvedList(rres)
  /\ UNCHANGED <<deps, resolved, memoOrder, rpc, rres, rsem, rctxDone, fetches, warnings>>
  /\ UNCHANGED outsideResolve

InitResolve ==
  /\ deps \in DepLists
  /\ resolved = <<>>
  /\ memoOrder = <<>>
  /\ rpass = "peers"
  /\ rpc = [i \in DOMAIN deps |-> "scan"]
  /\ rres = [i \in DOMAIN deps |-> Returned(Pending, NoEntry, "none")]
  /\ rsem = NewWeighted(ResolvePermits)
  /\ rctxDone = FALSE
  /\ fetches = [n \in Names |-> 0]
  /\ warnings = {}
  /\ resolvedDeps = <<>>
  /\ IdleRun /\ IdleUnit /\ IdleInstall /\ IdleSemver /\ IdleHoist /\ IdleEnv /\ IdleExtract /\ IdleLock /\ IdleTree

NextResolve ==
  \/ \E i \in 1..MaxDeps : ScanResolved(i)
  \/ \E i \in 1..MaxDeps : AcquireSlot(i)
  \/ \E i \in 1..MaxDeps : ResumeSlot(i)
  \/ \E i \in 1..MaxDeps : FetchAndMemoize(i)
  \/ PeersCollected
  \/ ResolveDependenciesReturns

SpecResolve == InitResolve /\ [][NextResolve]_vars

(***************************************************************************)
(* Concurrent calls of GetMatchingVersions (semver.go): each runs the      *)
(* semver program through RunSemver, under the package's semaphore.        *)
(***************************************************************************)
\* goroutines calling the matcher
SemverCallers == 3
\* semver.go line 13: the semaphore's permits (64 in the program)
SemverPermits == 2

Callers == 1..SemverCallers

\* the ranges the callers pass
SemverRanges == {Exact(1), Between(1, 2), Between(2, 3), Exact(9), Word("bogus")}

\* the candidate lists
CandidateSets == {{1, 2, 3}, {3, 1}, {2}}

\* line 45: GetMatchingVersions is called with a range
CallGetMatchingVersions(c) ==
  /\ c \in DOMAIN spc /\ spc[c] = "idle"
  /\ \E version \in SemverRanges : sargs' = [sargs EXCEPT ![c] = version]
  /\ spc' = [spc EXCEPT ![c] = "acquire"]
  /\ UNCHANGED <<semverSemaphore, svers, sout>>
  /\ UNCHANGED outsideSemver

\* line 17: semverSemaphore.Acquire(context.Background(), 1)
AcquireSemver(c) ==
  /\ c \in DOMAIN spc /\ spc[c] = "acquire"
  /\ IF CanAcquireNow(semverSemaphore)
     THEN /\ semverSemaphore' = [semverSemaphore EXCEPT !.cur = @ + 1]
          /\ spc' = [spc EXCEPT ![c] = "running"]
     ELSE /\ semverSemaphore' = [semverSemaphore EXCEPT !.waiters = Append(@, c)]
          /\ spc' = [spc EXCEPT ![c] = "wait"]
  /\ UNCHANGED <<svers, sargs, sout>>
  /\ UNCHANGED outsideSemver

\* line 17, a blocked Acquire returning: the background context is never done
ResumeSemver(c) ==
  /\ c \in DOMAIN spc /\ spc[c] = "wait" /\ c \in semverSemaphore.ready
  /\ semverSemaphore' = AcquireResumes(semverSemaphore, c, FALSE).sem
  /\ spc' = [spc EXCEPT ![c] = "running"]
  /\ UNCHANGED <<svers, sargs, sout>>
  /\ UNCHANGED outsideSemver

\* lines 24-35 and 49-57: the program exits, the deferred Release(1) of line
\* 18 runs and GetMatchingVersions returns
RunSemverReturns(c) ==
  /\ c \in DOMAIN spc /\ spc[c] = "running"
  /\ ~ReleasePanics(semverSemaphore)
  /\ semverSemaphore' = Release(semverSemaphore)
  /\ sout' = [sout EXCEPT ![c] = GetMatchingVersions(sargs[c], svers)]
  /\ spc' = [spc EXCEPT ![c] = "done"]
  /\ UNCHANGED <<svers, sargs>>
  /\ UNCHANGED outsideSemver

InitSemver ==
  /\ semverSemaphore = NewWeighted(SemverPermits)
  /\ svers \in CandidateSets
  /\ spc = [c \in Callers |-> "idle"]
  /\ sargs = [c \in Callers |-> Exact(1)]
  /\ sout = [c \in Callers |-> [err |-> FALSE, matches |-> <<>>]]
  /\ IdleRun /\ IdleUnit /\ IdleInstall /\ IdleResolve /\ IdleHoist /\ IdleEnv /\ IdleExtract /\ IdleLock /\ IdleTree

NextSemver ==
  \/ \E c \in Callers : CallGetMatchingVersions(c)
  \/ \E c \in Callers : AcquireSemver(c)
  \/ \E c \in Callers : ResumeSemver(c)
  \/ \E c \in Callers : RunSemverReturns(c)

SpecSemver == InitSemver /\ [][NextSemver]_vars

(***************************************************************************)
(* HoistDependencies (resolve.go lines 218-293) on a resolved tree. A      *)
(* PackageInfo is [Name, Version, ResolvedDeps], ResolvedDeps a map from   *)
(* a dependency's name to its PackageInfo.                                 *)
(***************************************************************************)
\* longest list of top-level packages that have dependencies
MaxTop == 2

TopNames == <<"A", "C", "E">>
HoistVersions == {1, 2}
NoDeps == [n \in {} |-> 0]

KeyOf(dep) == <<dep.Name, dep.Version>>
HoistKeys ==
  {<<TopNames[i], 1>> : i \in DOMAIN TopNames} \cup ({"B", "D"} \X HoistVersions)

\* the trees: a top-level package may depend on a version of B, and a
\* version of B may depend on a version of D (0: no such dependency); one
\* name@version has the same dependencies wherever it occurs
Leaf(v) == [Name |-> "D", Version |-> v, ResolvedDeps |-> NoDeps]
Mid(v, d) ==
  [Name |-> "B", Version |-> v,
   ResolvedDeps |-> IF d = 0 THEN NoDeps ELSE [n \in {"D"} |-> Leaf(d)]]
Top(name, b, bsub) ==
  [Name |-> name, Version |-> 1,
   ResolvedDeps |-> IF b = 0 THEN NoDeps ELSE [n \in {"B"} |-> Mid(b, bsub[b])]]

\* lines 225-240: the packages collectPackages visits from one package
RECURSIVE NodesOf(_)
NodesOf(dep) ==
  {dep} \cup UNION {NodesOf(dep.ResolvedDeps[n]) : n \in DOMAIN dep.ResolvedDeps}

\* lines 227-238: how often collectPackages counts a key from one package
RECURSIVE Occurrences(_, _), OccurrencesIn(_, _, _)
Occurrences(dep, key) ==
  (IF KeyOf(dep) = key THEN 1 ELSE 0)
    + OccurrencesIn(dep.ResolvedDeps, DOMAIN dep.ResolvedDeps, key)
OccurrencesIn(m, names, key) ==
  IF names = {} THEN 0
  ELSE LET n == CHOOSE x \in names : TRUE
       IN  Occurrences(m[n], key) + OccurrencesIn(m, names \ {n}, key)

\* line 241: collectPackages(dependencies, 0)
RECURSIVE CountInList(_, _)
CountInList(list, key) ==
  IF list = <<>> THEN 0
  ELSE Occurrences(Head(list), key) + CountInList(Tail(list), key)

SeenAtAll(count) == ~(count <= 0)

\* lines 255-257: a key counted once is passed over
SeenMoreThanOnce(count) == ~(count <= 1)

\* every version of the name is dropped from the maps
updateRefsOfName(list, name, version) ==
  [i \in DOMAIN list |->
     [list[i] EXCEPT !.ResolvedDeps =
        [n \in {x \in DOMAIN @ : ~(@[x].Name = name)} |-> @[n]]]]

\* lines 271-288: updateRefs(hoisted). The ResolvedDeps of each element of
\* the list is replaced by a map without the hoisted name@version; the
\* recursive call works on a one-element slice holding a copy of the
\* dependency, so what it assigns is lost and the maps below stay as they are
updateRefs(list, name, version) ==
  [i \in DOMAIN list |->
     [list[i] EXCEPT !.ResolvedDeps =
        [n \in {x \in DOMAIN @ : ~(@[x].Name = name /\ @[x].Version = version)} |-> @[n]]]]

\* lines 219-251: the tree is walked, the root list starts as a copy of the
\* argument and rootPackages holds the version of each top-level name
CollectPackages ==
  /\ hpc = "collect"
  /\ LET nodes == UNION {NodesOf(hdeps[i]) : i \in DOMAIN hdeps}
         keys == {KeyOf(d) : d \in nodes}
         c == [k \in keys |-> CountInList(hdeps, k)]
     IN  /\ counts' = c
         /\ hoistPackages' = [k \in keys |-> CHOOSE d \in nodes : KeyOf(d) = k]
         /\ pending' = {k \in keys : SeenMoreThanOnce(c[k])}
  /\ hoisted' = hdeps
  /\ rootPackages' =
       [n \in {hdeps[i].Name : i \in DOMAIN hdeps} |->
          LET last == CHOOSE i \in DOMAIN hdeps :
                        /\ hdeps[i].Name = n
                        /\ \A j \in DOMAIN hdeps : hdeps[j].Name = n => j <= i
          IN  hdeps[last].Version]
  /\ hkeys' = {}
  /\ hpc' = "loop"
  /\ UNCHANGED hdeps
  /\ UNCHANGED outsideHoist

\* lines 254-290: one iteration of the loop over counts, for a key counted
\* more than once; a map is ranged over in any order
HoistKey(key) ==
  /\ hpc = "loop" /\ key \in pending
  /\ LET pkg == hoistPackages[key]
         name == pkg.Name
         version == pkg.Version
         exists == name \in DOMAIN rootPackages
     IN  IF ~exists \/ rootPackages[name] = version
         THEN /\ rootPackages' =
                   IF exists THEN rootPackages
                   ELSE [n \in DOMAIN rootPackages \cup {name} |->
                           IF n = name THEN version ELSE rootPackages[n]]
              /\ hoisted' = updateRefs(IF exists THEN hoisted ELSE Append(hoisted, pkg),
                                       name, version)
              /\ hkeys' = hkeys \cup {key}
         ELSE UNCHANGED <<rootPackages, hoisted, hkeys>>
  /\ pending' = pending \ {key}
  /\ UNCHANGED <<hdeps, counts, hoistPackages, hpc>>
  /\ UNCHANGED outsideHoist

\* line 292
HoistReturns ==
  /\ hpc = "loop" /\ pending = {}
  /\ hpc' = "returned"
  /\ UNCHANGED <<hdeps, counts, hoistPackages, hoisted, rootPackages, pending, hkeys>>
  /\ UNCHANGED outsideHoist

\* the argument: up to MaxTop packages with dependencies, then possibly a
\* version of B as a top-level package of its own
InitHoist ==
  /\ \E n \in 1..MaxTop :
       \E bsub \in [HoistVersions -> {0} \cup HoistVersions] :
         \E child \in [1..n -> {0} \cup HoistVersions] :
           \E tb \in {0} \cup HoistVersions :
             hdeps = [i \in 1..n |-> Top(TopNames[i], child[i], bsub)]
                       \o (IF tb = 0 THEN <<>> ELSE <<Mid(tb, bsub[tb])>>)
  /\ counts = <<>> /\ hoistPackages = <<>> /\ hoisted = <<>> /\ rootPackages = <<>>
  /\ pending = {} /\ hkeys = {} /\ hpc = "collect"
  /\ IdleRun /\ IdleUnit /\ IdleInstall /\ IdleResolve /\ IdleSemver /\ IdleEnv /\ IdleExtract /\ IdleLock /\ IdleTree

NextHoist ==
  \/ CollectPackages
  \/ \E key \in HoistKeys : HoistKey(key)
  \/ HoistReturns

SpecHoist == InitHoist /\ [][NextHoist]_vars

(***************************************************************************)
(* One call of extractTarGz (semver.go lines 500-619) on an archive of     *)
(* directory, regular-file and symlink entries, into a destination that    *)
(* MkdirAll(pkgPath) has just created. A path is the sequence of its       *)
(* components below destPath.                                              *)
(***************************************************************************)
\* most entries in an archive
MaxEntries == 3

DirEntry(name) == [Typeflag |-> "dir", Name |-> name, Data |-> <<>>, Linkname |-> ""]
RegEntry(name, data) == [Typeflag |-> "reg", Name |-> name, Data |-> data, Linkname |-> ""]
SymlinkEntry(name, linkname) ==
  [Typeflag |-> "symlink", Name |-> name, Data |-> <<>>, Linkname |-> linkname]

TarEntries ==
  { DirEntry(<<"package", "x">>),
    RegEntry(<<"package", "x">>, <<1, 2>>),
    RegEntry(<<"package", "x">>, <<3>>),
    SymlinkEntry(<<"package", "x">>, "t"),
    RegEntry(<<"package", "x", "y">>, <<1>>) }

Archives == UNION { [1..n -> TarEntries] : n \in 1..MaxEntries }

\* whether something lies below the path
HasChildren(t, p) ==
  \E q \in DOMAIN t : Len(q) > Len(p) /\ SubSeq(q, 1, Len(p)) = p

\* os.Remove: fails when nothing is at the path, and on a directory that is
\* not empty
RemoveFails(t, p) == p \notin DOMAIN t \/ (t[p].kind = "dir" /\ HasChildren(t, p))
Remove(t, p) == [q \in DOMAIN t \ {p} |-> t[q]]

\* the file os.OpenFile opens: a symlink at the path is followed
Followed(t, p) ==
  IF p \in DOMAIN t /\ t[p].kind = "link" THEN ParentDir(p) \o t[p].target ELSE p

\* os.OpenFile(target, O_CREATE|O_RDWR, mode) fails on a directory and when
\* the parent is no directory
OpenFails(t, p) ==
  LET f == Followed(t, p)
      parent == ParentDir(f)
  IN  \/ f \in DOMAIN t /\ t[f].kind = "dir"
      \/ parent # <<>> /\ (parent \notin DOMAIN t \/ t[parent].kind # "dir")

\* the placeholder's name: target + ".symlink"
PlaceholderPath(p) == Append(ParentDir(p), p[Len(p)] \o ".symlink")

\* os.WriteFile: the file is created or truncated
WritePlaceholder(t, p, linkname) ==
  [q \in DOMAIN t \cup {PlaceholderPath(p)} |->
     IF q = PlaceholderPath(p) THEN FileNode(<<"Symlink to: ", linkname>>, "0644")
     ELSE t[q]]

AtEntry(flag) ==
  /\ xerr = "pending" /\ xnext <= Len(archive)
  /\ archive[xnext].Typeflag = flag

TargetOf(e) == StripPackagePrefix(e.Name)

\* lines 548-555: a directory entry
ExtractDir ==
  /\ AtEntry("dir")
  /\ LET target == TargetOf(archive[xnext])
     IN  IF target \in createdDirs
         THEN /\ xnext' = xnext + 1
              /\ UNCHANGED <<dest, createdDirs, xerr>>
         ELSE IF MkdirAllFails(dest, target)
         THEN /\ xerr' = "error"
              /\ UNCHANGED <<dest, createdDirs, xnext>>
         ELSE /\ dest' = MkdirAll(dest, target)
              /\ createdDirs' = createdDirs \cup {target}
              /\ xnext' = xnext + 1
              /\ UNCHANGED xerr
  /\ UNCHANGED archive
  /\ UNCHANGED outsideExtract

\* lines 557-593: a regular file
ExtractReg ==
  /\ AtEntry("reg")
  /\ LET target == TargetOf(archive[xnext])
         dir == ParentDir(target)
         mkdir == dir \notin createdDirs
         t1 == IF mkdir /\ ~MkdirAllFails(dest, dir) THEN MkdirAll(dest, dir) ELSE dest
     IN  IF mkdir /\ MkdirAllFails(dest, dir)
         THEN /\ xerr' = "error"
              /\ UNCHANGED <<dest, createdDirs, xnext>>
         ELSE /\ createdDirs' = createdDirs \cup {dir}
              /\ IF OpenFails(t1, target)
                 THEN /\ dest' = t1
                      /\ xerr' = "error"
                      /\ UNCHANGED xnext
                 ELSE /\ dest' = CopyToFile(t1, Followed(t1, target), archive[xnext].Data)
                      /\ xnext' = xnext + 1
                      /\ UNCHANGED xerr
  /\ UNCHANGED archive
  /\ UNCHANGED outsideExtract

\* lines 595-617: a symlink; os.Symlink may be refused by the system
ExtractSymlink ==
  /\ AtEntry("symlink")
  /\ LET target == TargetOf(archive[xnext])
         dir == ParentDir(target)
         mkdir == dir \notin createdDirs
         t1 == IF mkdir /\ ~MkdirAllFails(dest, dir) THEN MkdirAll(dest, dir) ELSE dest
     IN  IF mkdir /\ MkdirAllFails(dest, dir)
         THEN /\ xerr' = "error"
              /\ UNCHANGED <<dest, createdDirs, xnext>>
         ELSE /\ createdDirs' = createdDirs \cup {dir}
              /\ IF RemoveFails(t1, target)
                 THEN /\ dest' = t1
                      /\ xerr' = "error"
                      /\ UNCHANGED xnext
                 ELSE /\ \E supported \in BOOLEAN :
                           dest' =
                             IF supported
                             THEN [q \in DOMAIN t1 \cup {target} |->
                                     IF q = target
                                     THEN LinkNode(<<archive[xnext].Linkname>>)
                                     ELSE t1[q]]
                             ELSE WritePlaceholder(Remove(t1, target), target,
                                                   archive[xnext].Linkname)
                      /\ xnext' = xnext + 1
                      /\ UNCHANGED xerr
  /\ UNCHANGED archive
  /\ UNCHANGED outsideExtract

\* lines 525-528 and 621: tr.Next() returns io.EOF, extractTarGz returns nil
ExtractEOF ==
  /\ xerr = "pending" /\ xnext > Len(archive)
  /\ xerr' = "nil"
  /\ UNCHANGED <<archive, dest, createdDirs, xnext>>
  /\ UNCHANGED outsideExtract

InitExtract ==
  /\ archive \in Archives
  /\ dest = [q \in {} |-> DirNode]
  /\ createdDirs = {}
  /\ xnext = 1
  /\ xerr = "pending"
  /\ IdleRun /\ IdleUnit /\ IdleInstall /\ IdleResolve /\ IdleSemver /\ IdleHoist
  /\ IdleEnv /\ IdleLock /\ IdleTree

NextExtract ==
  \/ ExtractDir
  \/ ExtractReg
  \/ ExtractSymlink
  \/ ExtractEOF

SpecExtract == InitExtract /\ [][NextExtract]_vars

(***************************************************************************)
(* One call of GenerateLockFile (resolve.go lines 295-355) on a list of    *)
(* resolved packages. A key of the packages map is the sequence of its     *)
(* path components, the root key "" the empty sequence.                    *)
(***************************************************************************)
\* the empty version string
NoVersion == 0

\* a PackageInfo as ResolveDependency leaves it (lines 204-209)
Pkg(name, version, rdeps) ==
  [Name |-> name, Version |-> version, ResolvedDeps |-> rdeps,
   Dependencies |-> [k \in DOMAIN rdeps |-> rdeps[k].Version]]

\* the inputs: top-level packages of distinct names, each with an optional
\* B below it and an optional D below that; any of them may lack its name
\* or its version
LockLeaves == { Pkg("D", v, NoDeps) : v \in {NoVersion, 1} }
LockMids ==
  { Pkg(nm, v, rd) :
      nm \in {"B", ""}, v \in {NoVersion, 1},
      rd \in {NoDeps} \cup { [n \in {"D"} |-> l] : l \in LockLeaves } }
\* a top-level package before it is given its name
TopShapes ==
  { [named |-> b, version |-> v, rdeps |-> rd] :
      b \in BOOLEAN, v \in {NoVersion, 1},
      rd \in {NoDeps} \cup { [n \in {"B"} |-> m] : m \in LockMids } }
LockTop(name, shape) ==
  Pkg(IF shape.named THEN name ELSE "", shape.version, shape.rdeps)

\* every key directly below the root's node_modules
FlatPath(path, name) == <<"node_modules", name>>

\* lines 331-334: the key of a dependency below a path
NewPath(path, name) == path \o <<"node_modules", name>>

\* lines 308-316: the root entry's dependencies
RECURSIVE RootDependencies(_)
RootDependencies(dependencies) ==
  IF dependencies = <<>> THEN NoDeps
  ELSE LET d == dependencies[Len(dependencies)]
           before == RootDependencies(SubSeq(dependencies, 1, Len(dependencies) - 1))
       IN  IF d.Name # "" /\ d.Version # NoVersion
           THEN [n \in DOMAIN before \cup {d.Name} |->
                   IF n = d.Name THEN d.Version ELSE before[n]]
           ELSE before

\* lines 306-319: the lockfile before the packages are added
EmptyLockfile(dependencies) ==
  [err |-> "nil", seen |-> {},
   Packages |-> [q \in {<<>>} |->
                   [Pkg("", NoVersion, NoDeps)
                      EXCEPT !.Dependencies = RootDependencies(dependencies)]]]

\* lines 321-341: addPackage; an error ends the walk
RECURSIVE addPackage(_, _, _), addResolvedDeps(_, _, _, _)
addPackage(lf, pkg, path) ==
  IF lf.err # "nil" THEN lf
  ELSE IF pkg.Name = "" \/ pkg.Version = NoVersion
  THEN [lf EXCEPT !.err = "invalid package: missing name or version"]
  ELSE IF path \in lf.seen THEN lf
  ELSE addResolvedDeps(
         [lf EXCEPT !.seen = @ \cup {path},
                    !.Packages = [q \in DOMAIN @ \cup {path} |->
                                    IF q = path THEN pkg ELSE @[q]]],
         pkg.ResolvedDeps, DOMAIN pkg.ResolvedDeps, path)
addResolvedDeps(lf, rdeps, names, path) ==
  IF names = {} THEN lf
  ELSE LET k == CHOOSE k \in names : TRUE
       IN  addResolvedDeps(addPackage(lf, rdeps[k], NewPath(path, rdeps[k].Name)),
                           rdeps, names \ {k}, path)

\* lines 343-347: the top-level packages in order
RECURSIVE addAll(_, _)
addAll(lf, dependencies) ==
  IF dependencies = <<>> THEN lf
  ELSE addAll(addPackage(lf, Head(dependencies), NewPath(<<>>, Head(dependencies).Name)), Tail(dependencies))

\* the document returned on an error: the empty string
NoDocument == <<>>

\* lines 295-355
GenerateLockFile(dependencies) ==
  LET lf == addAll(EmptyLockfile(dependencies), dependencies)
  IN  IF lf.err # "nil"
      THEN [err |-> lf.err, doc |-> NoDocument]
      ELSE [err |-> "nil",
            doc |-> [lockfileVersion |-> 3, requires |-> TRUE,
                     packages |-> lf.Packages]]

GenerateLock ==
  /\ ldeps # <<>> /\ lockDoc = <<>>
  /\ lockDoc' = GenerateLockFile(ldeps)
  /\ UNCHANGED ldeps
  /\ UNCHANGED outsideLock

InitLock ==
  /\ \E n \in 1..MaxTop :
       \E t \in [1..n -> TopShapes] :
         ldeps = [i \in 1..n |-> LockTop(TopNames[i], t[i])]
  /\ lockDoc = <<>>
  /\ IdleRun /\ IdleUnit /\ IdleInstall /\ IdleResolve /\ IdleSemver /\ IdleHoist
  /\ IdleEnv /\ IdleExtract /\ IdleTree

NextLock ==
  \/ GenerateLock

SpecLock == InitLock /\ [][NextLock]_vars

(***************************************************************************)
(* The calls of ResolveDependency (resolve.go lines 111-216) started by    *)
(* one errgroup of ResolveDependencies, with the calls they make for their *)
(* own dependencies. A call is named by its path: the names from the       *)
(* top-level dependency down to its own.                                   *)
(***************************************************************************)
\* most permits of the HTTP semaphore
MaxTreePermits == 2

\* a call deeper than the permits never gets one: its ancestors hold them
MaxDepth == MaxTreePermits + 1

TreeNames == {"a", "b"}
TreeRanges == {Exact(1), Exact(2)}
\* the registry holds one version of every package
TreeVersions == {1}

RECURSIVE PathsOfLength(_)
PathsOfLength(n) ==
  IF n = 0 THEN {<<>>}
  ELSE {Append(q, nm) : q \in PathsOfLength(n - 1), nm \in TreeNames}
TreePaths == UNION {PathsOfLength(n) : n \in 1..MaxDepth}

\* the registry's documents: the dependencies of each package's version,
\* each a name with a range
DependencyMaps == UNION {[S -> TreeRanges] : S \in SUBSET TreeNames}
Registries == [TreeNames -> DependencyMaps]

\* PackageInfo{}
NoPackageInfo ==
  [Name |-> "", Version |-> 0, Dependencies |-> NoDeps, DevDependencies |-> NoDeps,
   ResolvedDeps |-> NoDeps]

\* a version's entry in the registry's document
MetadataEntry(name, v) ==
  [Name |-> name, Version |-> v,
   Dependencies |-> metadata[name],
   DevDependencies |-> [n \in {"dev"} |-> Exact(1)],
   ResolvedDeps |-> NoDeps]

\* lines 145-171: the range is matched against the registry's versions; no
\* range is a dist-tag here
TreeSelect(name, version) ==
  LET g == GetMatchingVersions(version, TreeVersions)
  IN  IF g.err THEN [err |-> "UnknownVersionOrTag", entry |-> NoPackageInfo]
      ELSE [err |-> NoError, entry |-> MetadataEntry(name, g.matches[Len(g.matches)])]

\* the entry with what the registry gave left in place
KeptAsFetched(pkgInfo, rdeps) == [pkgInfo EXCEPT !.ResolvedDeps = rdeps]

\* lines 203-209
Rewritten(pkgInfo, rdeps) ==
  [pkgInfo EXCEPT !.Dependencies = [n \in DOMAIN rdeps |-> rdeps[n].Version],
                  !.DevDependencies = NoDeps,
                  !.ResolvedDeps = rdeps]

NewCall(version) ==
  [pc |-> "scan", version |-> version, err |-> Pending, entry |-> NoPackageInfo]

\* the calls a call's errgroup started
ChildCalls(p) ==
  {q \in DOMAIN calls : Len(q) = Len(p) + 1 /\ SubSeq(q, 1, Len(p)) = p}

\* errgroup: the first error cancels the group's context
GroupFailed(p) == \E q \in ChildCalls(p) : calls[q].pc = "done" /\ calls[q].err # NoError

\* a call's context is done when the group of any ancestor is cancelled
CtxDone(p) == \E k \in 0..(Len(p) - 1) : GroupFailed(SubSeq(p, 1, k))

\* lines 117-128: the memoized entries of the name whose version satisfies
\* the range
TreeCompatible(name, version) ==
  {k \in DOMAIN treeResolved :
     /\ k[1] = name
     /\ ~GetMatchingVersions(version, {treeResolved[k].Version}).err}

TreeReturns(p, e, pkgInfo) ==
  calls' = [calls EXCEPT ![p].pc = "done", ![p].err = e, ![p].entry = pkgInfo]

\* lines 116-129
TreeScan(p) ==
  /\ p \in DOMAIN calls /\ calls[p].pc = "scan"
  /\ IF TreeCompatible(p[Len(p)], calls[p].version) = {}
     THEN calls' = [calls EXCEPT ![p].pc = "acquire"]
     ELSE \E k \in TreeCompatible(p[Len(p)], calls[p].version) :
            TreeReturns(p, NoError, treeResolved[k])
  /\ UNCHANGED <<metadata, treeResolved, treeSem>>
  /\ UNCHANGED outsideTree

\* lines 134-137: semaphore.Acquire(ctx, 1), its error returned; the permit
\* is held until the call returns
TreeAcquire(p) ==
  /\ p \in DOMAIN calls /\ calls[p].pc = "acquire"
  /\ IF CtxDone(p)
     THEN /\ TreeReturns(p, "Canceled", NoPackageInfo)
          /\ UNCHANGED treeSem
     ELSE IF CanAcquireNow(treeSem)
     THEN /\ treeSem' = [treeSem EXCEPT !.cur = @ + 1]
          /\ calls' = [calls EXCEPT ![p].pc = "fetch"]
     ELSE /\ treeSem' = [treeSem EXCEPT !.waiters = Append(@, p)]
          /\ calls' = [calls EXCEPT ![p].pc = "wait"]
  /\ UNCHANGED <<metadata, treeResolved>>
  /\ UNCHANGED outsideTree

\* lines 134-137, a blocked Acquire returning
TreeResume(p) ==
  /\ p \in DOMAIN calls /\ calls[p].pc = "wait"
  /\ p \in treeSem.ready \/ CtxDone(p)
  /\ LET r == AcquireResumes(treeSem, p, CtxDone(p))
     IN  /\ treeSem' = r.sem
         /\ IF r.ok
            THEN calls' = [calls EXCEPT ![p].pc = "fetch"]
            ELSE TreeReturns(p, "Canceled", NoPackageInfo)
  /\ UNCHANGED <<metadata, treeResolved>>
  /\ UNCHANGED outsideTree

\* lines 139-197: the registry answers unless the context is cancelled; the
\* version is selected and one call is started for each dependency
TreeFetch(p) ==
  /\ p \in DOMAIN calls /\ calls[p].pc = "fetch"
  /\ LET r == IF CtxDone(p) THEN [err |-> "RegistryError", entry |-> NoPackageInfo]
              ELSE TreeSelect(p[Len(p)], calls[p].version)
         allDeps == r.entry.Dependencies
     IN  IF r.err # NoError
         THEN /\ TreeReturns(p, r.err, NoPackageInfo)
              /\ treeSem' = Release(treeSem)
         ELSE /\ calls' =
                   [q \in DOMAIN calls \cup {Append(p, n) : n \in DOMAIN allDeps} |->
                      IF q = p THEN [calls[p] EXCEPT !.pc = "children", !.entry = r.entry]
                      ELSE IF q \in DOMAIN calls THEN calls[q]
                      ELSE NewCall(allDeps[q[Len(q)]])]
              /\ UNCHANGED treeSem
  /\ UNCHANGED <<metadata, treeResolved>>
  /\ UNCHANGED outsideTree

\* lines 199-215: g.Wait() returns; on an error the call returns it, else
\* the entry is rewritten and memoized under name@range; the deferred
\* Release runs
TreeWait(p) ==
  /\ p \in DOMAIN calls /\ calls[p].pc = "children"
  /\ \A q \in ChildCalls(p) : calls[q].pc = "done"
  /\ treeSem' = Release(treeSem)
  /\ IF GroupFailed(p)
     THEN /\ TreeReturns(p, "DependencyFailed", NoPackageInfo)
          /\ UNCHANGED treeResolved
     ELSE LET rdeps == [n \in {q[Len(q)] : q \in ChildCalls(p)} |->
                          calls[Append(p, n)].entry]
              pkgInfo == Rewritten(calls[p].entry, rdeps)
              uniqueKey == <<p[Len(p)], calls[p].version>>
          IN  /\ TreeReturns(p, NoError, pkgInfo)
              /\ treeResolved' = [k \in DOMAIN treeResolved \cup {uniqueKey} |->
                                    IF k = uniqueKey THEN pkgInfo ELSE treeResolved[k]]
  /\ UNCHANGED metadata
  /\ UNCHANGED outsideTree

\* ResolveDependencies lines 90-103: one call for each top-level dependency
InitTree ==
  /\ metadata \in Registries
  /\ \E tops \in SUBSET TreeNames :
       /\ tops # {}
       /\ calls = [q \in {<<n>> : n \in tops} |-> NewCall(Exact(1))]
  /\ treeResolved = <<>>
  /\ \E n \in 1..MaxTreePermits : treeSem = NewWeighted(n)
  /\ IdleRun /\ IdleUnit /\ IdleInstall /\ IdleResolve /\ IdleSemver /\ IdleHoist
  /\ IdleEnv /\ IdleExtract /\ IdleLock

NextTree ==
  \/ \E p \in TreePaths : TreeScan(p)
  \/ \E p \in TreePaths : TreeAcquire(p)
  \/ \E p \in TreePaths : TreeResume(p)
  \/ \E p \in TreePaths : TreeFetch(p)
  \/ \E p \in TreePaths : TreeWait(p)

\* a goroutine that can run is run
FairTree == WF_vars(NextTree)

SpecTree == InitTree /\ [][NextTree]_vars /\ FairTree

(***************************************************************************)
(* Claims checked under Spec (the install run).                            *)
(***************************************************************************)
HttpInFlight == {u \in Units : pc[u] = "getting"}
Extracting == {u \in Units : pc[u] = "extracting"}
UnitFailed(u) == pc[u] = "done" /\ unitErr[u] # NoError
OsExcluded(u) == packages[u].OS # {} /\ currentOS \notin packages[u].OS

\* C1: at no moment are more tarball GETs in flight than the HTTP semaphore
\* has permits, nor more extractors running than the extraction semaphore
\* has permits, also after a unit has failed and cancelled the context.
C1_SemaphoreBound ==
  /\ Cardinality(HttpInFlight) <= HttpPermits
  /\ Cardinality(Extracting) <= TarPermits

\* C2: once the group context is cancelled (a unit has returned an error),
\* no unit that had not issued its tarball GET issues one.
C2_NoGetAfterCancel ==
  [][ctxDone => \A u \in Units : pc'[u] = "getting" => pc[u] = "getting"]_vars

\* C5: if any unit returned an error the run ends with exit status 1 and the
\* shim installer is never invoked; the shim installer runs only when every
\* unit returned nil.
C5_ErrorExitsOne ==
  /\ (\E u \in Units : UnitFailed(u)) => main \in {"wait", "exit1"}
  /\ main \in {"shims", "complete"} =>
       \A u \in Units : pc[u] = "done" /\ unitErr[u] = NoError

\* C6: no shim is written while a fetch-extract unit is still running: every
\* iteration of the shim installer happens after all units have returned.
C6_ShimsAfterUnits ==
  (main \in {"shims", "complete"} \/ shimmed # {}) =>
    \A u \in Units : pc[u] = "done"

C6_Witness ==
  /\ main = "complete" /\ shimmed = Units
  /\ \E u \in Units : u \in pkgDirs

\* C7: a plan entry whose os list is non-empty and lacks the host OS creates
\* no destination directory, takes no semaphore permit and issues no GET, and
\* the run still succeeds when all the other units succeed.
C7_OsFilter ==
  /\ \A u \in Units : OsExcluded(u) =>
       /\ u \notin pkgDirs
       /\ pc[u] \in {"start", "return", "done"}
       /\ ~holdsHttp[u] /\ ~holdsTar[u]
       /\ \A i \in 1..Len(httpSemaphore.waiters) : httpSemaphore.waiters[i] # u
       /\ unitErr[u] \in {Pending, NoError}
  /\ ( /\ \A u \in Units : pc[u] = "done"
       /\ \A u \in Units : ~OsExcluded(u) => unitErr[u] = NoError )
     => groupErr = NoError /\ main \in {"wait", "shims", "complete"}

C7_Witness ==
  /\ main = "complete"
  /\ \E u \in Units : OsExcluded(u) /\ packages[u].Resolved # ""
  /\ \E u \in Units : ~OsExcluded(u) /\ u \in pkgDirs

\* C18: a unit whose GET is in flight holds an HTTP permit, and a unit whose
\* extractor runs holds both an HTTP permit and an extraction permit: no
\* acquisition is skipped on the way to the extractor.
C18_StrictOrderBothPermits ==
  \A u \in Units :
    /\ pc[u] = "getting" => holdsHttp[u]
    /\ pc[u] = "extracting" => holdsHttp[u] /\ holdsTar[u]

\* C19 as stated: when a unit's digests are compared its extraction slot has
\* already been released.
C19_TarReleasedBeforeCompare ==
  \A u \in Units : pc[u] = "compare" => ~holdsTar[u]

\* C19: a unit gives up its extraction permit only at its return, after the
\* digests were compared or the extractor failed, and while it still holds
\* its HTTP permit; it gives up its HTTP permit only after that (release
\* order: compare, extraction slot, HTTP slot).
C19_ReleasesAfterCompare ==
  [][ \A u \in Units :
        /\ (holdsTar[u] /\ ~holdsTar'[u]) => pc[u] = "relTar" /\ holdsHttp[u]
        /\ (holdsHttp[u] /\ ~holdsHttp'[u]) => pc[u] = "relHttp" /\ ~holdsTar[u] ]_vars

C19_Witness ==
  \E u \in Units : pc[u] = "relHttp" /\ holdsHttp[u] /\ ~holdsTar[u]
                     /\ unitErr[u] = NoError /\ ~ctxDone

HoldersHttp == {u \in Units : holdsHttp[u]}
HoldersTar == {u \in Units : holdsTar[u]}

\* C29: a unit releases a permit only if its own Acquire succeeded: Release
\* never panics for releasing more than is held, and every permit a unit
\* acquired and has not released itself is still counted as held by its
\* semaphore.
C29_ReleasesOnlyOwnPermit ==
  /\ main # "panic"
  /\ httpSemaphore.cur >= Cardinality(HoldersHttp)
  /\ tarSemaphore.cur >= Cardinality(HoldersTar)

(***************************************************************************)
(* Claims checked under SpecDownload.                                      *)
(***************************************************************************)
\* C21: the extraction semaphore gets ceil(1.5 x logical CPUs) permits when
\* TAR_WORKERS is unset, no number or not positive, and the TAR_WORKERS value
\* as its permit count when that value is positive.
C21_TarPermitsFromEnv ==
  [][ (main = "setup" /\ main' = "wait") =>
        IF tarWorkersEnv.kind = "number" /\ tarWorkersEnv.halves > 0
        THEN 2 * tarSemaphore'.size = tarWorkersEnv.halves
        ELSE tarSemaphore'.size = TruncatedUp(3 * numCPU) ]_vars

\* C30: with the goroutines scheduled fairly and every request answered,
\* the run ends: the shims are installed, or the program exits non-zero.
C30_RunTerminates == <>(main \in {"complete", "exit1", "panic"})

(***************************************************************************)
(* Claims checked under SpecUnit (one unit's data path).                   *)
(***************************************************************************)
\* the bytes of the body before the end-of-archive marker (all of them when
\* there is none)
RECURSIVE ArchiveBytes(_)
ArchiveBytes(bs) ==
  IF bs = <<>> \/ Head(bs) = EndOfArchive THEN <<>>
  ELSE <<Head(bs)>> \o ArchiveBytes(Tail(bs))

\* a non-empty stream every byte of which, up to the marker, is a tar entry
WellFormedArchive(bs) ==
  /\ bs # <<>>
  /\ \A i \in 1..Len(ArchiveBytes(bs)) : ArchiveBytes(bs)[i] # CorruptByte

\* the archive's entries, their names without the leading package/
ArchiveFiles(bs) ==
  { [Name |-> IF e.Name[1] = "package" THEN Tail(e.Name) ELSE e.Name, Data |-> e.Data] :
      e \in {TarEntry(ArchiveBytes(bs)[i]) : i \in 1..Len(ArchiveBytes(bs))} }

\* C3: when the tag is well-formed and is the digest of the complete response
\* body, the unit succeeds and destPath holds exactly the archive's entries,
\* for every chunking of the stream and for any number of body bytes after
\* the end of the archive.
C3_MatchingTagSucceeds ==
  (upc = "done" /\ resp = "200" /\ tampered = "none" /\ WellFormedArchive(body))
    => result = NoError /\ destFiles = ArchiveFiles(body)

UnknownPrefix == ~HasPrefix(integrity, Sha1Prefix) /\ ~HasPrefix(integrity, Sha512Prefix)
Undecodable == ~UnknownPrefix /\ ~DecodeString(SplitField1(integrity)).ok

C8_UnitsWriteDisjointPaths ==
  \A k1 \in DOMAIN lockfile, k2 \in DOMAIN lockfile :
    k1 # k2 => wrote[k1] \cap wrote[k2] = {}

\* C9: the second run of install-lockfile on the same lockfile ends with the
\* tree the first run ended with (paths, contents, symlink targets).
C9_SecondRunSameTree ==
  (run = 2 /\ phase = "complete") => tree = firstTree

\* C10: when the installation is complete, every entry whose lockfile record
\* has no bin map and whose installed package.json declares bin for a script
\* that is installed has its shim in .bin.
C10_ShimFromPackageJSON ==
  phase = "complete" =>
    \A k \in DOMAIN lockfile :
      lockfile[k].Bin = {} =>
        LET installed == NormalizedPkgName(k) \o <<"package.json">>
        IN  \A e \in readPackageJSONBin(tree, installed, k).bin :
              NormalizedPkgName(k) \o e.script \in DOMAIN tree
                => /\ <<".bin", e.cmd>> \in DOMAIN tree
                   /\ tree[<<".bin", e.cmd>>].kind = "link"

\* what a relative link target denotes when resolved from dir; <<"/">> when it
\* climbs above node_modules (where it would depend on where the tree is)
RECURSIVE ResolveFrom(_, _)
ResolveFrom(dir, rel) ==
  IF rel = <<>> THEN dir
  ELSE IF Head(rel) = ".."
  THEN IF dir = <<>> THEN <<"/">> ELSE ResolveFrom(ParentDir(dir), Tail(rel))
  ELSE ResolveFrom(dir \o <<Head(rel)>>, Tail(rel))

\* the bin entries an installed package declares, in its lockfile record or
\* in its installed package.json
DeclaredBin(k) ==
  lockfile[k].Bin \cup
    readPackageJSONBin(tree, NormalizedPkgName(k) \o <<"package.json">>, k).bin

ShimPaths == {p \in DOMAIN tree : Len(p) = 2 /\ p[1] = ".bin"}

\* C11: every shim node_modules/.bin/<cmd> is a symlink whose target is a
\* relative path that, resolved from .bin, stays below node_modules (so it
\* resolves the same wherever the tree is moved) and denotes the script
\* node_modules/<pkgName>/<scriptPath> of a package declaring <cmd>; that
\* script exists and has mode 0755.
C11_ShimIsRelativeLink ==
  \A p \in ShimPaths :
    LET t == tree[p].target
        script == ResolveFrom(<<".bin">>, t)
    IN  /\ tree[p].kind = "link"
        /\ t # <<>> /\ t[1] # "/"
        /\ script # <<"/">>
        /\ script \in DOMAIN tree /\ tree[script].kind = "file"
        /\ tree[script].mode = "0755"
        /\ \E k \in DOMAIN lockfile : \E e \in DeclaredBin(k) :
             e.cmd = p[2] /\ script = NormalizedPkgName(k) \o e.script

C11_Witness ==
  /\ phase = "complete"
  /\ <<".bin", "run">> \in DOMAIN tree
  /\ tree[<<".bin", "run">>].target = <<"..", "a", "node_modules", "b", "cli.js">>

(***************************************************************************)
(* Claims checked under SpecResolve (the resolver).                        *)
(***************************************************************************)
Siblings(i, j) == i # j /\ deps[i].Name = deps[j].Name
ReturnedOK(i) == rpc[i] = "done" /\ rres[i].err = NoError
CallsOf(n) == {i \in DOMAIN deps : deps[i].Name = n}

\* C12 as stated: two sibling calls of one name, with different ranges that one version
\* of the registry satisfies both, return the same entry, and one metadata
\* GET is made for the name.
C12_SiblingsOneFetch ==
  rpass = "peers" =>
    \A i \in DOMAIN deps, j \in DOMAIN deps :
      ( /\ Siblings(i, j) /\ deps[i].Version # deps[j].Version
        /\ ReturnedOK(i) /\ ReturnedOK(j)
        /\ \E v \in RegistryVersions(deps[i].Name) :
             Satisfies(v, deps[i].Version) /\ Satisfies(v, deps[j].Version) )
      => rres[i].entry = rres[j].entry /\ fetches[deps[i].Name] = 1

\* C12 as amended: among sibling calls, a call makes one metadata GET unless
\* it finds a compatible memoized entry at its scan (the GETs made for a name
\* are as many as its calls that went on to the registry); a call that
\* returns from the memo returns the entry some sibling fetched and stored;
\* and every entry returned satisfies the call's own range or is the version
\* of its dist-tag.
C12_OneFetchPerUnmemoizedCall ==
  rpass = "peers" =>
    /\ \A n \in Names :
         fetches[n] = Cardinality({i \in CallsOf(n) :
                                     rpc[i] = "done" /\ rres[i].from = "registry"})
    /\ \A j \in DOMAIN deps :
         ReturnedOK(j) =>
           /\ rres[j].entry.Name = deps[j].Name
           /\ \/ Satisfies(rres[j].entry.Version, deps[j].Version)
              \/ /\ deps[j].Version.kind = "word"
                 /\ deps[j].Version.word \in DOMAIN DistTags(deps[j].Name)
                 /\ rres[j].entry.Version = DistTags(deps[j].Name)[deps[j].Version.word]
           /\ rres[j].from = "memo" =>
                \E i \in DOMAIN deps :
                  /\ Siblings(i, j) /\ ReturnedOK(i) /\ rres[i].from = "registry"
                  /\ rres[i].entry = rres[j].entry

C12_Witness ==
  /\ rpass = "peers"
  /\ \E i \in DOMAIN deps, j \in DOMAIN deps :
       /\ Siblings(i, j) /\ deps[i].Version # deps[j].Version
       /\ ReturnedOK(i) /\ ReturnedOK(j)
       /\ rres[i].from = "registry" /\ rres[j].from = "memo"
       /\ fetches[deps[i].Name] = 1

\* the memoized keys of call i's name whose version satisfies call i's range
Reusable(i) ==
  {k \in DOMAIN resolved :
     k[1] = deps[i].Name /\ Satisfies(resolved[k].Version, deps[i].Version)}

\* the one stored first
EarliestResolved(i) ==
  CHOOSE k \in Reusable(i) :
    \A n \in 1..Len(memoOrder) :
      memoOrder[n] \in Reusable(i) =>
        \E m \in 1..n : memoOrder[m] = k

\* C13: a call that scans the memo when it holds entries of its name whose
\* version satisfies its range returns at that step, without a permit and
\* without a metadata GET, and what it returns is the earliest-stored of
\* those entries.
C13_ReuseEarliestResolved ==
  [][ \A i \in DOMAIN deps :
        (ResolveRunning /\ rpc[i] = "scan" /\ Reusable(i) # {} /\ rpc'[i] # "scan")
          => /\ rpc'[i] = "done"
             /\ rres'[i] = Returned(NoError, resolved[EarliestResolved(i)], "memo")
             /\ fetches' = fetches /\ rsem' = rsem ]_vars

\* the version the registry should yield for a request: the greatest that
\* satisfies the range, else the version of the dist-tag, else 0
Selected(n, r) ==
  LET sat == {v \in RegistryVersions(n) : Satisfies(v, r)}
  IN  IF sat # {} THEN CHOOSE v \in sat : \A w \in sat : w <= v
      ELSE IF r.kind = "word" /\ r.word \in DOMAIN DistTags(n) THEN DistTags(n)[r.word]
      ELSE 0

\* C14: a call that reused no memoized entry and got the metadata returns the
\* entry of the greatest registry version satisfying its range, or of the
\* version its range names as a dist-tag; it fails with UnknownVersionOrTag
\* when the range is neither satisfiable nor a tag, and with
\* MetadataIncomplete when the selected version lacks its tarball or
\* integrity.
C14_GreatestOrTagOrError ==
  \A i \in DOMAIN deps :
    (ResolveRunning /\ rpc[i] = "done" /\ rres[i].from = "registry"
       /\ rres[i].err # "RegistryError")
    => LET n == deps[i].Name
           sel == Selected(n, deps[i].Version)
       IN  IF sel = 0 THEN rres[i].err = "UnknownVersionOrTag"
           ELSE IF VersionEntry(n, sel).Tarball = "" \/ VersionEntry(n, sel).Integrity = ""
           THEN rres[i].err = "MetadataIncomplete"
           ELSE rres[i].err = NoError /\ rres[i].entry = VersionEntry(n, sel)

C14_Witness ==
  \E i \in DOMAIN deps :
    /\ rpc[i] = "done" /\ rres[i].from = "registry" /\ rres[i].err = NoError
    /\ deps[i].Version = Between(1, 2) /\ rres[i].entry.Version = 2

\* an entry is a resolution of a request: the registry's entry of a version
\* of that name that satisfies the range or that the range names as a tag
IsResolutionOf(e, d) ==
  /\ e.Name = d.Name
  /\ e = VersionEntry(d.Name, e.Version)
  /\ \/ e.Version \in RegistryVersions(d.Name) /\ Satisfies(e.Version, d.Version)
     \/ /\ d.Version.kind = "word" /\ d.Version.word \in DOMAIN DistTags(d.Name)
        /\ e.Version = DistTags(d.Name)[d.Version.word]

C26_MemoizedByNameAtRange ==
  [][ rpass = "resolve" =>
        /\ fetches' = fetches
        /\ \A i \in DOMAIN deps :
             (rpc[i] # "done" /\ rpc'[i] = "done"
                /\ <<deps[i].Name, deps[i].Version>> \in DOMAIN resolved)
             => rres'[i] = Returned(NoError,
                                    resolved[<<deps[i].Name, deps[i].Version>>], "memo") ]_vars

(***************************************************************************)
(* Claims checked under SpecSemver.                                        *)
(***************************************************************************)
SemverRunning == {c \in DOMAIN spc : spc[c] = "running"}

HoistedNodes == UNION {NodesOf(hoisted[i]) : i \in DOMAIN hoisted}

\* C15: in the list HoistDependencies returns each name has at most one
\* version, and no resolvedDeps map at any depth of the returned tree holds
\* a name@version that was hoisted.
C15_HoistedNowhereNested ==
  hpc = "returned" =>
    /\ \A i, j \in DOMAIN hoisted :
         hoisted[i].Name = hoisted[j].Name => hoisted[i].Version = hoisted[j].Version
    /\ \A key \in hkeys : \A d \in HoistedNodes :
         \A n \in DOMAIN d.ResolvedDeps : KeyOf(d.ResolvedDeps[n]) # key

\* the list of C16: A depends on B@1, C on B@2, B is no top-level package
TwoVersionsOfB ==
  /\ Len(hdeps) = 2
  /\ hdeps[1].Name = "A" /\ DOMAIN hdeps[1].ResolvedDeps = {"B"}
  /\ hdeps[1].ResolvedDeps["B"].Version = 1
  /\ hdeps[2].Name = "C" /\ DOMAIN hdeps[2].ResolvedDeps = {"B"}
  /\ hdeps[2].ResolvedDeps["B"].Version = 2

AtRoot(name) == {i \in DOMAIN hoisted : hoisted[i].Name = name}

\* C16 as stated: on that list exactly one version of B is in the returned
\* root list and the other is still nested under its parent.
C16_ExactlyOneHoisted ==
  (hpc = "returned" /\ TwoVersionsOfB) =>
    /\ Cardinality(AtRoot("B")) = 1
    /\ \E i \in AtRoot("B") :
         LET parent == IF hoisted[i].Version = 1 THEN 2 ELSE 1
         IN  /\ "B" \in DOMAIN hoisted[parent].ResolvedDeps
             /\ hoisted[parent].ResolvedDeps["B"].Version # hoisted[i].Version

\* C16: on that list neither version of B is counted more than once, so
\* neither is hoisted: no B is at the root and both versions stay nested
\* under their parents. In general a name@version is added to the root only
\* when it occurs more than once in the tree and its name is not yet at the
\* root.
C16_OnlyRepeatedHoisted ==
  hpc = "returned" =>
    /\ TwoVersionsOfB =>
         /\ AtRoot("B") = {}
         /\ "B" \in DOMAIN hoisted[1].ResolvedDeps
         /\ hoisted[1].ResolvedDeps["B"].Version = 1
         /\ "B" \in DOMAIN hoisted[2].ResolvedDeps
         /\ hoisted[2].ResolvedDeps["B"].Version = 2
    /\ \A i \in DOMAIN hoisted :
         i > Len(hdeps) =>
           /\ CountInList(hdeps, KeyOf(hoisted[i])) > 1
           /\ \A j \in DOMAIN hoisted : hoisted[j].Name = hoisted[i].Name => j = i

C16_Witness ==
  /\ hpc = "returned" /\ TwoVersionsOfB /\ AtRoot("B") = {}
  /\ hoisted[1].ResolvedDeps["B"].Version = 1
  /\ hoisted[2].ResolvedDeps["B"].Version = 2

InputNodes == UNION {NodesOf(hdeps[i]) : i \in DOMAIN hdeps}

\* the root entry as it was in the argument: the top-level entry of the
\* same position, or for an appended entry the package of its key
OriginalOf(i) ==
  IF i <= Len(hdeps) THEN hdeps[i]
  ELSE CHOOSE d \in InputNodes : KeyOf(d) = KeyOf(hoisted[i])

\* the name@version pairs that were in a resolvedDeps map of the first
\* tree, at any depth, and are not in the same map of the second
RECURSIVE RemovedBetween(_, _)
RemovedBetween(before, after) ==
  {KeyOf(before.ResolvedDeps[n]) :
     n \in DOMAIN before.ResolvedDeps \ DOMAIN after.ResolvedDeps}
    \cup UNION {RemovedBetween(before.ResolvedDeps[n], after.ResolvedDeps[n]) :
                  n \in DOMAIN before.ResolvedDeps \cap DOMAIN after.ResolvedDeps}

RootKeys == {KeyOf(hoisted[i]) : i \in DOMAIN hoisted}

Returned0 == xerr \in {"nil", "error"}

\* the names of the symlink entries
SymlinkTargets ==
  {TargetOf(archive[i]) : i \in {j \in DOMAIN archive : archive[j].Typeflag = "symlink"}}

\* C23: an archive of symlink entries extracts without error whether or not
\* something is at the target's path (nothing is on a fresh destination),
\* and each target ends as the symlink or, where the system refused it, as
\* <target>.symlink holding 'Symlink to: <linkname>'.
C23_SymlinkExtracts ==
  (Returned0 /\ \A i \in DOMAIN archive : archive[i].Typeflag = "symlink")
    => /\ xerr = "nil"
       /\ \A p \in SymlinkTargets :
            \/ p \in DOMAIN dest /\ dest[p].kind = "link"
            \/ /\ PlaceholderPath(p) \in DOMAIN dest
               /\ dest[PlaceholderPath(p)].kind = "file"

\* the archive holds one path twice: a directory or regular file, then a
\* regular file
SamePathTwice ==
  /\ Len(archive) = 2
  /\ archive[1].Name = archive[2].Name
  /\ archive[1].Typeflag \in {"dir", "reg"} /\ archive[2].Typeflag = "reg"

\* C24: when the archive holds one path twice, the later entry a regular
\* file, extraction returns no error and the path holds exactly the content
\* of the later entry.
C24_LaterEntryWins ==
  (Returned0 /\ SamePathTwice)
    => /\ xerr = "nil"
       /\ dest[TargetOf(archive[2])] = FileNode(archive[2].Data, "0644")

(***************************************************************************)
(* Claims checked under SpecLock.                                          *)
(***************************************************************************)
\* a package and everything below it, each with the key it belongs under
RECURSIVE PlacedUnder(_, _)
PlacedUnder(pkg, path) ==
  {<<path, pkg>>}
    \cup UNION { PlacedUnder(pkg.ResolvedDeps[k],
                             path \o <<"node_modules", pkg.ResolvedDeps[k].Name>>) :
                   k \in DOMAIN pkg.ResolvedDeps }

Placed ==
  UNION { PlacedUnder(ldeps[i], <<"node_modules", ldeps[i].Name>>) : i \in DOMAIN ldeps }

SomeEntryIncomplete == \E pl \in Placed : pl[2].Name = "" \/ pl[2].Version = NoVersion

ReturnedEntry(c) == c.pc = "done" /\ c.err = NoError

\* C27: an entry ResolveDependency returns successfully has as its
\* dependencies exactly the names of its resolvedDeps, each with the
\* resolved version, and no devDependencies; a call whose dependency failed
\* returns an error and leaves the memo as it was.
C27_RewrittenOnSuccessOnly ==
  [][ \A p \in DOMAIN calls :
        (calls[p].pc # "done" /\ calls'[p].pc = "done") =>
          /\ calls'[p].err = NoError =>
               /\ DOMAIN calls'[p].entry.Dependencies = DOMAIN calls'[p].entry.ResolvedDeps
               /\ \A n \in DOMAIN calls'[p].entry.ResolvedDeps :
                    calls'[p].entry.Dependencies[n] = calls'[p].entry.ResolvedDeps[n].Version
               /\ calls'[p].entry.DevDependencies = NoDeps
          /\ (calls[p].pc = "children" /\ GroupFailed(p)) =>
               /\ calls'[p].err # NoError
               /\ treeResolved' = treeResolved ]_vars

\* a call has returned an entry with a resolved dependency below it
C27_Witness ==
  \E p \in DOMAIN calls :
    /\ ReturnedEntry(calls[p])
    /\ calls[p].entry.ResolvedDeps # NoDeps

TopLevelReturned == \A p \in DOMAIN calls : Len(p) = 1 => calls[p].pc = "done"

\* C28: under fair scheduling and a registry that always answers, every
\* top-level call of ResolveDependencies returns, whatever the dependency
\* graph and the permit count.
C28_ResolveTerminates == <>TopLevelReturned

====
